---- MODULE Spec2Model ----
(***************************************************************************)
(* A model of pyuo, a text client for the Ultima Online protocol.          *)
(*                                                                         *)
(* Spec      the session state machine of pyuo/client.py (connect,         *)
(*           selectServer, selectCharacter, play) with the world model and *)
(*           the Brain thread that consumes its events.  Client.receive is *)
(*           modelled by what Network.recv hands back: one decoded packet  *)
(*           or an exception.                                              *)
(* SpecQueue Brain.event against Brain.processEvents, one step per lock    *)
(*           operation.                                                    *)
(* SpecNet   Network.recv over a byte stream split into socket reads.      *)
(***************************************************************************)
EXTENDS Integers, Sequences, FiniteSets, TLC

\* ------------------------------------------------------------------ bounds
\* serials of world objects are 1..MaxSerial
MaxSerial == 2
\* current values carried by vitals packets are 1..MaxCur
MaxCur == 1
\* events the session enqueues over one run
MaxEvents == 1
\* events the receive thread pushes in SpecQueue
MaxPush == 3
\* messages in the byte stream of SpecNet
MaxMsgs == 2
\* bytes of a compressed run without end that follow the messages in SpecNet
MaxJunk == 3
\* bytes of the buffers handed to Ph.process in SpecPh
MaxLen == 5
\* messages the play loop processes in SpecWorld
MaxWorldMsgs == 3
\* bytes of the buffers handed to Network.decompress in SpecDecompress
MaxSrc == 3
\* items a mobile wears in the draw messages of SpecDecode
MaxEquip == 2
\* bytes written to a PacketOut in SpecPacketOut
MaxOut == 6
\* bytes of the buffer a Packet reads in SpecCursor
MaxBuf == 4

\* ------------------------------------------------------------ python values
\* None, for the vitals of a Mobile that were never received
None == -1
\* self.player = None: no object
NoOid == 0
\* self.target = None: no Target
NoTarget == [what |-> None, id |-> None, type |-> None]

Serials == 1..MaxSerial
Curs == 1..MaxCur
\* the maximum a vitals packet carries (kept apart from the current values)
MaxOf(cur) == cur + MaxCur

\* ------------------------------------------------------------------- state
VARIABLES
    \* Client
    status,      \* Client.status
    lc,          \* Client.lc, login complete
    pingDue,     \* Client.ping < time.time()
    net,         \* Client.net: the Network in use
    features,    \* Client.features
    player,      \* Client.player: object id, NoOid for None
    objects,     \* Client.objects: serial -> object id
    heap,        \* the python objects of the world model: object id -> fields
    pc,          \* where the main thread is: "idle" (outside a call) or "play"
    last,        \* the outcome of the main thread's last step
    tick,        \* flips with every step of the main thread
    \* Brain
    started,     \* Brain.started
    alive,       \* Brain.is_alive()
    events,      \* Brain.events
    nPushed,     \* how many events were appended so far
    lastDispatch,\* the handler the Brain called last
    \* Brain.event and Brain.processEvents, step by step (SpecQueue)
    lock,        \* Brain.eventsLock: "free" or the thread that holds it
    ppc,         \* the receive thread's place in Brain.event
    cpc,         \* the Brain thread's place in Brain.processEvents
    pev,         \* the event Brain.event was called with
    cev,         \* ev, the event processEvents took off the queue
    pushed,      \* the events appended so far, in order
    popped,      \* the events taken off so far, in order
    \* Network.recv over bytes (SpecNet)
    wire,        \* the bytes the peer sent that the socket has not handed out yet
    peerClosed,  \* the peer closes the connection after these bytes
    buf,         \* Network.buf
    rpc,         \* the place in Network.recv: "idle", "read" or "decode"
    rlast,       \* the outcome of the last call of Network.recv
    sent,        \* the messages the peer sent, in order
    nDelivered,  \* how many messages Network.recv has returned
    retries,     \* how often the call of Network.recv in progress has tried again
    \* Ph.process (SpecPh)
    phIn,        \* the buffer Ph.process is called with
    phOut,       \* what the call yields: the packet built or the exception
    \* the world model (SpecWorld)
    nMsgs,       \* messages the play loop has processed
    target,      \* Client.target: the Target awaiting an answer, NoTarget when None
    \* the functions studied on their own (SpecDecompress and the ones after it)
    arg,         \* the argument of the call
    res          \* what the call yields, NoResult before it

clientVars == <<status, lc, pingDue, net, features, pc, last, tick>>
worldVars == <<player, objects, heap, target>>
brainVars == <<started, alive, events, nPushed, lastDispatch>>
queueVars == <<lock, ppc, cpc, pev, cev, pushed, popped>>
recvVars == <<wire, peerClosed, buf, rpc, rlast, sent, nDelivered, retries>>
phVars == <<phIn, phOut, arg, res>>
\* what the steps of the session leave alone
offSession == <<queueVars, recvVars, phVars, nMsgs>>

\* ----------------------------------------------------------------- Network
\* Network.__init__: a connected socket, an empty buffer, compression off
NewNetworkMut(ep) == [ep |-> ep, open |-> TRUE, compress |-> TRUE]
NewNetwork(ep) == [ep |-> ep, open |-> TRUE, compress |-> FALSE]

\* before connect() the Client has no net attribute
NoNet == [ep |-> "none", open |-> FALSE, compress |-> FALSE]

\* Network.close
Close(n) == [n EXCEPT !.open = FALSE]

\* ------------------------------------------------------------- the packets
\* What Network.recv can hand to Client.receive: a decoded packet, or an
\* exception (the peer disconnected, the packet did not decode).
VitalKinds == {"UpdateHealth", "UpdateMana", "UpdateStamina"}

LoginPackets ==
         {[kind |-> "ServerList", servers |-> s] : s \in {<<>>, <<0>>}}
    \cup {[kind |-> "ConnectToGameServer", key |-> 7]}
    \cup {[kind |-> "EnableFeatures", features |-> 3]}
    \cup {[kind |-> "Characters", chars |-> <<"c0">>]}
    \cup {[kind |-> "LoginDenied", reason |-> 0]}

GamePackets ==
         {[kind |-> "Ping"], [kind |-> "LoginComplete"], [kind |-> "StatusBarInfo"]}
    \cup {[kind |-> "CharLocaleBody", serial |-> s, graphic |-> 0] : s \in Serials}
    \cup {[kind |-> "DrawObject", serial |-> s, graphic |-> 0, equip |-> <<>>] : s \in Serials}
    \cup {[kind |-> k, serial |-> s, cur |-> c, max |-> MaxOf(c)] :
            k \in VitalKinds, s \in Serials, c \in Curs}

NetError == [kind |-> "NetError"]

\* Ph.process found no handler for the first byte: NotImplementedError
UnknownPacket == [kind |-> "UnknownPacket"]

\* GeneralInfoPacket.__init__ met a subcommand it does not decode:
\* NotImplementedError
UnknownSubcommand == [kind |-> "UnknownSubcommand"]

\* the outcomes of Network.recv that are exceptions
RecvErrors == {NetError, UnknownPacket, UnknownSubcommand}

\* GeneralInfoPacket.SUB_FASTWALK: a subcommand the decoder reads and the
\* play loop has no branch for
SUB_FASTWALK == 1

\* the outcomes offered to the receives of connect and selectServer: the
\* packets of the login phase, one packet of the game phase, the exception
LoginOutcomes == LoginPackets \cup {[kind |-> "Ping"], NetError}

\* the outcomes offered to the receive of the play loop
PlayOutcomes ==
    GamePackets \cup {[kind |-> "LoginDenied", reason |-> 0],
                      [kind |-> "GeneralInfo", sub |-> SUB_FASTWALK]}
                \cup RecvErrors

\* ------------------------------------------------------------------ client
\* the status decorator: the method runs only in its required status
StatusOkMut(required) == TRUE
StatusOk(required) == status = required

\* Client.receive(expect): the exception it ends with, "None" when it returns
Receive(m, expect) ==
    IF m = NetError THEN "RuntimeError"
    ELSE IF m \in RecvErrors THEN "NotImplementedError"
    ELSE IF expect # "" /\ m.kind # expect THEN "UnexpectedPacketError"
    ELSE "None"

\* the outcome of one step of the main thread
Outcome(op, exc, io, ret, rx) == [op |-> op, exc |-> exc, io |-> io, ret |-> ret, rx |-> rx]

\* of the packets ms offered to a call, those its receives in io took
Received(io, ms) ==
    SubSeq(ms, 1, Cardinality({i \in 1..Len(io) : io[i][1] = "recv"}))

\* a call refused by the status decorator: nothing else happens
Refused(op) ==
    /\ last' = Outcome(op, "StatusError", <<>>, <<>>, <<>>)
    /\ tick' = 1 - tick
    /\ UNCHANGED <<status, lc, pingDue, net, features, pc>>
    /\ UNCHANGED worldVars
    /\ UNCHANGED brainVars
    /\ UNCHANGED offSession

\* ---------------------------------------------------------------- connect
\* Client.connect after the status check.  sockOk: the socket connected;
\* m: what Network.recv hands back.  Yields the new status and net, the
\* transport operations in the order made, the exception and the return value.
ConnectRunMut(sockOk, m) ==
    IF ~sockOk
    THEN [status |-> status, net |-> net, io |-> <<>>, exc |-> "OSError", ret |-> <<>>]
    ELSE [status |-> "connected", net |-> NewNetwork("auth"),
          io |-> << <<"send", "ident">>, <<"send", "LoginRequest">>, <<"recv", m.kind>> >>,
          exc |-> Receive(m, "ServerList"),
          ret |-> IF m.kind = "ServerList" THEN <<m.servers>> ELSE <<>>]

ConnectRun(sockOk, m) ==
    IF ~sockOk
    THEN [status |-> status, net |-> net, io |-> <<>>, exc |-> "OSError", ret |-> <<>>]
    ELSE LET n == NewNetwork("auth")
             io == << <<"send", "ident">>, <<"send", "LoginRequest">>, <<"recv", m.kind>> >>
             e == Receive(m, "ServerList")
         IN IF e # "None"
            THEN [status |-> status, net |-> n, io |-> io, exc |-> e, ret |-> <<>>]
            ELSE [status |-> "connected", net |-> n, io |-> io, exc |-> "None",
                  ret |-> <<m.servers>>]

Connect ==
    /\ pc = "idle"
    /\ IF ~StatusOk("disconnected")
       THEN Refused("connect")
       ELSE \E sockOk \in BOOLEAN, m \in LoginOutcomes :
              LET r == ConnectRun(sockOk, m) IN
              /\ status' = r.status
              /\ net' = r.net
              /\ last' = Outcome("connect", r.exc, r.io, r.ret, Received(r.io, <<m>>))
              /\ tick' = 1 - tick
              /\ UNCHANGED <<lc, pingDue, features, pc>>
              /\ UNCHANGED worldVars
              /\ UNCHANGED brainVars
              /\ UNCHANGED offSession

\* ------------------------------------------------------------ selectServer
SelectServerStepsMut(m1, m2, m3) ==
    << <<"send", "SelectServer">>,
       <<"recv", m1.kind>>,
       <<"close", net.ep>>,
       <<"open", "game">>,
       <<"compress", "on">>,
       <<"send", "key">>,
       <<"send", "GameServerLogin">>,
       <<"recv", m2.kind>>,
       <<"recv", m3.kind>> >>

\* The transport operations of Client.selectServer, in program order.  The
\* three receives are steps 2, 8 and 9.
SelectServerSteps(m1, m2, m3) ==
    << <<"send", "SelectServer">>,
       <<"recv", m1.kind>>,
       <<"close", net.ep>>,
       <<"open", "game">>,
       <<"send", "key">>,
       <<"send", "GameServerLogin">>,
       <<"compress", "on">>,
       <<"recv", m2.kind>>,
       <<"recv", m3.kind>> >>

Prefix(s, n) == SubSeq(s, 1, n)

\* Client.selectServer after the status check.  m1, m2, m3: what the three
\* receives hand back; sockOk: the game socket connected.
SelectServerRun(m1, sockOk, m2, m3) ==
    LET steps == SelectServerSteps(m1, m2, m3)
        e1 == Receive(m1, "ConnectToGameServer")
        e2 == Receive(m2, "EnableFeatures")
        e3 == Receive(m3, "Characters")
        game == [NewNetwork("game") EXCEPT !.compress = TRUE]
        fail(n, nt, ft, e) == [status |-> status, net |-> nt, features |-> ft,
                               io |-> Prefix(steps, n), exc |-> e, ret |-> <<>>]
    IN IF ~net.open THEN fail(0, net, features, "OSError")
       ELSE IF e1 # "None" THEN fail(2, net, features, e1)
       ELSE IF ~sockOk THEN fail(3, Close(net), features, "OSError")
       ELSE IF e2 # "None" THEN fail(8, game, features, e2)
       ELSE IF e3 # "None" THEN fail(9, game, m2.features, e3)
       ELSE [status |-> "loggedin", net |-> game, features |-> m2.features,
             io |-> steps, exc |-> "None", ret |-> <<m3.chars>>]

SelectServer ==
    /\ pc = "idle"
    /\ IF ~StatusOk("connected")
       THEN Refused("selectServer")
       ELSE \E sockOk \in BOOLEAN, m1, m2, m3 \in LoginOutcomes :
              LET r == SelectServerRun(m1, sockOk, m2, m3) IN
              /\ status' = r.status
              /\ net' = r.net
              /\ features' = r.features
              /\ last' = Outcome("selectServer", r.exc, r.io, r.ret,
                                 Received(r.io, <<m1, m2, m3>>))
              /\ tick' = 1 - tick
              /\ UNCHANGED <<lc, pingDue, pc>>
              /\ UNCHANGED worldVars
              /\ UNCHANGED brainVars
              /\ UNCHANGED offSession

\* --------------------------------------------------------- selectCharacter
\* Client.selectCharacter: one send, no reply awaited; self.status = 'game'
SelectCharacterStatusMut == "connected"
SelectCharacterStatus == "game"

SelectCharacter ==
    /\ pc = "idle"
    /\ IF ~StatusOk("loggedin")
       THEN Refused("selectCharacter")
       ELSE /\ status' = SelectCharacterStatus
            /\ last' = Outcome("selectCharacter", "None", << <<"send", "LoginCharacter">> >>,
                               <<>>, <<>>)
            /\ tick' = 1 - tick
            /\ UNCHANGED <<lc, pingDue, net, features, pc>>
            /\ UNCHANGED worldVars
            /\ UNCHANGED brainVars
            /\ UNCHANGED offSession

\* ------------------------------------------------------------- world model
\* Event types
EVT_HP_CHANGED == 1
EVT_MANA_CHANGED == 2
EVT_STAM_CHANGED == 3

\* UOBject.__init__ and the attributes its subclasses add, all unknown; the
\* content of a Container and the equip of a Mobile are empty while unknown
NewUOBject(cls, serial) ==
    [cls |-> cls, serial |-> serial, graphic |-> None, amount |-> None,
     hp |-> None, maxhp |-> None, mana |-> None, maxmana |-> None,
     stam |-> None, maxstam |-> None, content |-> <<>>, equip |-> <<>>]

\* Mobile.__init__ (Player adds nothing the model reads): vitals unknown
NewMobile(cls, serial) == NewUOBject(cls, serial)

\* the Player after the CharLocaleBody branch has filled it in
NewPlayer(serial, graphic) == [NewMobile("Player", serial) EXCEPT !.graphic = graphic]

\* Item.__init__ without a packet: self.amount = 1
NewItem == [NewUOBject("Item", None) EXCEPT !.amount = 1]

\* isinstance(obj, Mobile), isinstance(obj, Item), isinstance(obj, Container)
IsMobile(obj) == obj.cls \in {"Player", "Mobile"}
IsItem(obj) == obj.cls \in {"Item", "Container"}
IsContainer(obj) == obj.cls = "Container"

\* a fresh python object: the smallest identity not in use
NewOid(h) == CHOOSE n \in 1..(Cardinality(DOMAIN h) + 1) : n \notin DOMAIN h

\* the vital a packet kind carries: current field, maximum field, event type
CurField(kind) ==
    CASE kind = "UpdateHealth" -> "hp" [] kind = "UpdateMana" -> "mana"
      [] kind = "UpdateStamina" -> "stam"
MaxField(kind) ==
    CASE kind = "UpdateHealth" -> "maxhp" [] kind = "UpdateMana" -> "maxmana"
      [] kind = "UpdateStamina" -> "maxstam"
EventType(kind) ==
    CASE kind = "UpdateHealth" -> EVT_HP_CHANGED [] kind = "UpdateMana" -> EVT_MANA_CHANGED
      [] kind = "UpdateStamina" -> EVT_STAM_CHANGED

\* obj.max<vital> = pkt.max; obj.<vital> = pkt.cur
SetVitalMut(h, oid, m) == [h EXCEPT ![oid][CurField(m.kind)] = m.max,
                                    ![oid][MaxField(m.kind)] = m.cur]
SetVital(h, oid, m) == [h EXCEPT ![oid][MaxField(m.kind)] = m.max,
                                 ![oid][CurField(m.kind)] = m.cur]

\* Event(type, old=old, new=new)
Event(type, old, new) == [type |-> type, old |-> old, new |-> new]

\* ----------------------------------------------------- play: the dispatch
\* What one branch of the play loop does to the session: the exception it
\* ends with, the new lc, player, objects and heap, the packets it sends, the
\* events it hands to the Brain and whether it starts the Brain.
Effect(exc, l, pl, objs, h, io, evs, start) ==
    [exc |-> exc, lc |-> l, player |-> pl, objects |-> objs, heap |-> h,
     io |-> io, evs |-> evs, start |-> start, target |-> target]

NoEffect(exc) == Effect(exc, lc, player, objects, heap, <<>>, <<>>, FALSE)

\* elif isinstance(pkt, net.CharLocaleBodyPacket)
OnCharLocaleBody(m) ==
    IF lc \/ player # NoOid THEN NoEffect("AssertionError")
    ELSE LET o == NewOid(heap)
             h == heap @@ (o :> NewPlayer(m.serial, m.graphic))
         IN IF m.serial \in DOMAIN objects
            THEN Effect("AssertionError", lc, o, objects, h, <<>>, <<>>, FALSE)
            ELSE Effect("None", lc, o, objects @@ (m.serial :> o), h, <<>>, <<>>, FALSE)

\* self.objects[serial] = obj
Put(objs, serial, oid) == (serial :> oid) @@ objs

\* What a method leaves behind: the exception it ends with, the object map and
\* the objects
World(exc, objs, h) == [exc |-> exc, objects |-> objs, heap |-> h]

\* the loop over pkt.equip of Mobile.update: the item of each entry is looked
\* up or created and registered, then takes the graphic of the entry
RECURSIVE Equip(_, _, _, _)
Equip(objs, h, oid, eqs) ==
    IF eqs = <<>> THEN World("None", objs, h)
    ELSE LET eq == Head(eqs)
             known == eq.serial \in DOMAIN objs
             it == IF known THEN objs[eq.serial] ELSE NewOid(h)
             h1 == IF known THEN h ELSE h @@ (it :> [NewItem EXCEPT !.serial = eq.serial])
             o1 == IF known THEN objs ELSE Put(objs, eq.serial, it)
             h2 == [h1 EXCEPT ![it].graphic = eq.graphic,
                              ![oid].equip = Append(@, it)]
         IN Equip(o1, h2, oid, Tail(eqs))

\* Mobile.update
MobileUpdate(objs, h, oid, m) ==
    IF m.kind \notin {"UpdatePlayer", "DrawObject"} THEN World("ValueError", objs, h)
    ELSE LET h1 == [h EXCEPT ![oid].serial = m.serial, ![oid].graphic = m.graphic]
         IN IF m.kind = "DrawObject"
            THEN Equip(objs, [h1 EXCEPT ![oid].equip = <<>>], oid, m.equip)
            ELSE World("None", objs, h1)

\* Item.update
ItemUpdate(objs, h, oid, m) ==
    IF m.kind # "ObjectInfo" THEN World("ValueError", objs, h)
    ELSE World("None", objs, [h EXCEPT ![oid].serial = m.serial,
                                       ![oid].graphic = m.graphic,
                                       ![oid].amount = m.count])

\* self.objects[pkt.serial].update(pkt): the method of the object's class
Update(objs, h, oid, m) ==
    IF IsMobile(h[oid]) THEN MobileUpdate(objs, h, oid, m) ELSE ItemUpdate(objs, h, oid, m)

\* the assert self.lc that opens a branch
LcAsserted == lc

\* elif isinstance(pkt, net.DrawObjectPacket)
OnDrawObject(m) ==
    IF ~LcAsserted THEN NoEffect("AssertionError")
    ELSE IF m.serial \in DOMAIN objects
    THEN LET r == Update(objects, heap, objects[m.serial], m)
         IN Effect(r.exc, lc, player, r.objects, r.heap, <<>>, <<>>, FALSE)
    ELSE LET o == NewOid(heap)
             r == MobileUpdate(objects, heap @@ (o :> NewMobile("Mobile", None)), o, m)
         IN Effect("None", lc, player, Put(r.objects, m.serial, o), r.heap,
                   << <<"send", "SingleClick">> >>, <<>>, FALSE)

\* elif isinstance(pkt, net.ObjectInfoPacket)
OnObjectInfo(m) ==
    IF ~LcAsserted THEN NoEffect("AssertionError")
    ELSE IF m.serial \in DOMAIN objects
    THEN LET r == Update(objects, heap, objects[m.serial], m)
         IN Effect(r.exc, lc, player, r.objects, r.heap, <<>>, <<>>, FALSE)
    ELSE LET o == NewOid(heap)
             r == ItemUpdate(objects, heap @@ (o :> NewItem), o, m)
         IN Effect("None", lc, player, Put(r.objects, m.serial, o), r.heap, <<>>, <<>>, FALSE)

\* elif isinstance(pkt, net.UpdatePlayerPacket)
OnUpdatePlayer(m) ==
    IF ~LcAsserted THEN NoEffect("AssertionError")
    ELSE IF m.serial \notin DOMAIN objects THEN NoEffect("KeyError")
    ELSE LET r == Update(objects, heap, objects[m.serial], m)
         IN Effect(r.exc, lc, player, r.objects, r.heap, <<>>, <<>>, FALSE)

\* elif isinstance(pkt, net.DeleteObjectPacket)
OnDeleteObjectMut(m) ==
    Effect("None", lc, player,
           [s \in DOMAIN objects \ {m.serial} |-> objects[s]], heap, <<>>, <<>>, FALSE)
OnDeleteObject(m) ==
    IF ~LcAsserted THEN NoEffect("AssertionError")
    ELSE Effect("None", lc, player,
                [s \in DOMAIN objects \ {m.serial} |-> objects[s]], heap, <<>>, <<>>, FALSE)

\* Container.addItem: the item is looked up or created and registered, takes
\* graphic and amount of the entry and is appended to the content
AddItem(objs, h, cont, it) ==
    LET known == it.serial \in DOMAIN objs
        item == IF known THEN objs[it.serial] ELSE NewOid(h)
        h1 == IF known THEN h ELSE h @@ (item :> [NewItem EXCEPT !.serial = it.serial])
        o1 == IF known THEN objs ELSE Put(objs, it.serial, item)
    IN World("None", o1, [h1 EXCEPT ![item].graphic = it.graphic,
                                    ![item].amount = it.amount,
                                    ![cont].content = Append(@, item)])

\* if isinstance(self.objects[it['container']], Container): addItem, else a
\* warning; for every entry in turn, up to the first that raises
RECURSIVE AddItems(_, _, _)
AddItems(objs, h, its) ==
    IF its = <<>> THEN World("None", objs, h)
    ELSE LET it == Head(its)
         IN IF it.container \notin DOMAIN objs THEN World("KeyError", objs, h)
            ELSE IF IsContainer(h[objs[it.container]])
            THEN LET r == AddItem(objs, h, objs[it.container], it)
                 IN AddItems(r.objects, r.heap, Tail(its))
            ELSE AddItems(objs, h, Tail(its))

\* elif isinstance(pkt, net.AddItemToContainerPacket) / AddItemsToContainerPacket:
\* the single packet is its own entry
OnAddItems(m) ==
    IF ~LcAsserted THEN NoEffect("AssertionError")
    ELSE LET r == AddItems(objects, heap, m.items)
         IN Effect(r.exc, lc, player, r.objects, r.heap, <<>>, <<>>, FALSE)

\* if not isinstance(cont, Container)
NeedsUpgradeMut(obj) == TRUE
NeedsUpgrade(obj) == ~IsContainer(obj)

\* Item.upgradeToContainer: the class of the object changes, Container.upgrade
\* sets its content to unknown
UpgradeToContainer(h, oid) == [h EXCEPT ![oid].cls = "Container", ![oid].content = <<>>]

\* elif isinstance(pkt, net.DrawContainerPacket)
OnDrawContainer(m) ==
    IF m.serial \notin DOMAIN objects THEN NoEffect("KeyError")
    ELSE LET cont == objects[m.serial]
         IN IF ~IsItem(heap[cont]) THEN NoEffect("AssertionError")
            ELSE IF ~NeedsUpgrade(heap[cont]) THEN NoEffect("None")
            ELSE Effect("None", lc, player, objects, UpgradeToContainer(heap, cont),
                        <<>>, <<>>, FALSE)

\* elif isinstance(pkt, net.UpdateHealthPacket) / UpdateManaPacket /
\* UpdateStaminaPacket: the three branches differ in the vital only
OnUpdateVital(m) ==
    IF ~LcAsserted THEN NoEffect("AssertionError")
    ELSE LET old == heap[player][CurField(m.kind)]
         IN IF heap[player].serial = m.serial
            THEN LET h == SetVital(heap, player, m)
                 IN Effect("None", lc, player, objects, h, <<>>,
                           <<Event(EventType(m.kind), old, h[player][CurField(m.kind)])>>, FALSE)
            ELSE IF m.serial \notin DOMAIN objects THEN NoEffect("KeyError")
            ELSE LET h == SetVital(heap, objects[m.serial], m)
                 IN Effect("None", lc, player, objects, h, <<>>,
                           <<Event(EventType(m.kind), old, h[player][CurField(m.kind)])>>, FALSE)

\* elif isinstance(pkt, net.LoginCompletePacket)
LoginCompleteSends ==
    << <<"send", "RequestStatus">>, <<"send", "ClientVersion">>, <<"send", "ClientType">>,
       <<"send", "Language">>, <<"send", "SingleClick">> >>

\* script.start(self)
StartBrain == << <<"start", "Brain">> >>

\* the two asserts of the branch
LoginCompleteAllowedMut == player # NoOid
LoginCompleteAllowed == ~lc /\ player # NoOid

OnLoginComplete(m) ==
    IF ~LoginCompleteAllowed THEN NoEffect("AssertionError")
    ELSE Effect("None", TRUE, player, objects, heap, LoginCompleteSends \o StartBrain,
                <<>>, TRUE)

\* Target.__init__: what, id and type of the packet
NewTarget(m) == [what |-> m.what, id |-> m.id, type |-> m.type]

\* assert self.target is None
TargetFreeMut == TRUE
TargetFree == target = NoTarget

\* elif isinstance(pkt, net.TargetCursorPacket)
OnTargetCursor(m) ==
    IF ~TargetFree THEN NoEffect("AssertionError")
    ELSE [NoEffect("None") EXCEPT !.target = NewTarget(m)]

\* the if/elif chain of Client.play
Dispatch(m) ==
    CASE m.kind = "LoginDenied" -> NoEffect("LoginDeniedError")
      [] m.kind = "Ping" -> NoEffect("None")
      [] m.kind = "CharLocaleBody" -> OnCharLocaleBody(m)
      [] m.kind = "DrawObject" -> OnDrawObject(m)
      [] m.kind = "ObjectInfo" -> OnObjectInfo(m)
      [] m.kind = "UpdatePlayer" -> OnUpdatePlayer(m)
      [] m.kind = "DeleteObject" -> OnDeleteObject(m)
      [] m.kind \in {"AddItemToContainer", "AddItemsToContainer"} -> OnAddItems(m)
      [] m.kind = "DrawContainer" -> OnDrawContainer(m)
      [] m.kind = "TargetCursor" -> OnTargetCursor(m)
      [] m.kind \in VitalKinds -> OnUpdateVital(m)
      [] m.kind = "LoginComplete" -> OnLoginComplete(m)
      [] m.kind = "GeneralInfo" -> NoEffect("None")
      [] OTHER -> NoEffect("None")

\* ------------------------------------------------------------------- play
\* Client.play up to its loop
PlayEnter ==
    /\ pc = "idle"
    /\ IF ~StatusOk("game")
       THEN Refused("play")
       ELSE /\ pingDue' = FALSE
            /\ pc' = "play"
            /\ last' = Outcome("play", "None", <<>>, <<>>, <<>>)
            /\ tick' = 1 - tick
            /\ UNCHANGED <<status, lc, net, features>>
            /\ UNCHANGED worldVars
            /\ UNCHANGED brainVars
            /\ UNCHANGED offSession

\* Brain.event
Push(q, evs) == q \o evs

\* One iteration of the loop of Client.play: receive, check the Brain, ping,
\* dispatch.  An exception or the break leaves the loop.
PlayStep(m) ==
         /\ tick' = 1 - tick
         /\ UNCHANGED <<status, net, features>>
         /\ IF m \in RecvErrors
            THEN /\ pc' = "idle"
                 /\ last' = Outcome("play", Receive(m, ""), << <<"recv", m.kind>> >>, <<>>, <<>>)
                 /\ UNCHANGED <<lc, pingDue>>
                 /\ UNCHANGED worldVars
                 /\ UNCHANGED brainVars
            ELSE IF started /\ ~alive
            THEN /\ pc' = "idle"
                 /\ last' = Outcome("play", "None", << <<"recv", m.kind>> >>, <<"break">>, <<m>>)
                 /\ UNCHANGED <<lc, pingDue>>
                 /\ UNCHANGED worldVars
                 /\ UNCHANGED brainVars
            ELSE LET sendPing == lc /\ pingDue
                     e == Dispatch(m)
                     io == << <<"recv", m.kind>> >>
                             \o (IF sendPing THEN << <<"send", "Ping">> >> ELSE <<>>)
                             \o e.io
                 IN /\ pingDue' = IF sendPing THEN FALSE ELSE pingDue
                    /\ lc' = e.lc
                    /\ player' = e.player
                    /\ objects' = e.objects
                    /\ heap' = e.heap
                    /\ target' = e.target
                    /\ events' = Push(events, e.evs)
                    /\ nPushed' = nPushed + Len(e.evs)
                    /\ started' = (started \/ e.start)
                    /\ alive' = (alive \/ e.start)
                    /\ pc' = IF e.exc = "None" THEN "play" ELSE "idle"
                    /\ last' = Outcome("play", e.exc, io, <<>>, <<m>>)
                    /\ UNCHANGED lastDispatch

\* the loop of Client.play with what the server may send
PlayIter ==
    /\ pc = "play"
    /\ \E m \in PlayOutcomes :
         /\ m.kind \in VitalKinds => nPushed < MaxEvents
         /\ PlayStep(m)
         /\ UNCHANGED offSession

\* the clock passes Client.ping
TimePasses ==
    /\ ~pingDue
    /\ pingDue' = TRUE
    /\ UNCHANGED <<status, lc, net, features, pc, last, tick>>
    /\ UNCHANGED worldVars
    /\ UNCHANGED brainVars
    /\ UNCHANGED offSession

\* ------------------------------------------------------------------ Brain
\* Brain.processEvents, after popleft: the handler called for the event
HandlerMut(ev) ==
    IF ev.type = EVT_HP_CHANGED THEN "onManaChange" ELSE "NotImplementedError"
Handler(ev) ==
    IF ev.type = EVT_HP_CHANGED THEN "onHpChange" ELSE "NotImplementedError"

NoDispatch == [type |-> 0, old |-> None, new |-> None, handler |-> "none"]

\* self.events.popleft(): the place in the queue the event is taken from
PopIndexMut(q) == Len(q)
PopIndex(q) == 1

RemoveAt(q, i) == SubSeq(q, 1, i - 1) \o SubSeq(q, i + 1, Len(q))

Dispatched(ev) ==
    [type |-> ev.type, old |-> ev.old, new |-> ev.new, handler |-> Handler(ev)]

\* The Brain thread takes one event off the queue and dispatches it; an
\* exception ends the thread.
BrainProcess ==
    /\ started /\ alive
    /\ events # <<>>
    /\ LET ev == events[PopIndex(events)] IN
       /\ events' = RemoveAt(events, PopIndex(events))
       /\ lastDispatch' = Dispatched(ev)
       /\ alive' = (Handler(ev) # "NotImplementedError")
    /\ UNCHANGED <<started, nPushed>>
    /\ UNCHANGED clientVars
    /\ UNCHANGED worldVars
    /\ UNCHANGED offSession

\* ------------------------------------------------------------------- Spec
vars == <<status, lc, pingDue, net, features, player, objects, heap, pc, last, tick,
          started, alive, events, nPushed, lastDispatch,
          lock, ppc, cpc, pev, cev, pushed, popped,
          wire, peerClosed, buf, rpc, rlast, sent, nDelivered, retries,
          phIn, phOut, nMsgs, target, arg, res>>

NoEvent == [type |-> 0, old |-> None, new |-> None]

\* no call of Network.recv was made yet
NoRecv == [exc |-> "no call", raw |-> <<>>, size |-> 0, declared |-> 0, consumed |-> 0,
           before |-> <<>>, idx |-> 0, retries |-> 0]

\* Brain.__init__: the lock free, no thread inside event or processEvents
QueueIdle ==
    /\ lock = "free"
    /\ ppc = "idle"
    /\ cpc = "out"
    /\ pev = NoEvent
    /\ cev = NoEvent
    /\ pushed = <<>>
    /\ popped = <<>>

\* Network.__init__: an empty buffer, nothing received
RecvIdle ==
    /\ wire = <<>>
    /\ peerClosed = FALSE
    /\ buf = <<>>
    /\ rpc = "idle"
    /\ rlast = NoRecv
    /\ sent = <<>>
    /\ nDelivered = 0
    /\ retries = 0

\* the function was not called
NoResult == [done |-> FALSE]

\* Ph.process was not called
NoPacket == [cls |-> "", exc |-> "no call"]

PhIdle ==
    /\ phIn = <<>>
    /\ phOut = NoPacket
    /\ arg = <<>>
    /\ res = NoResult
    /\ nMsgs = 0

Init ==
    /\ QueueIdle
    /\ RecvIdle
    /\ PhIdle
    /\ status = "disconnected"
    /\ lc = FALSE
    /\ pingDue = TRUE
    /\ net = NoNet
    /\ features = None
    /\ player = NoOid
    /\ objects = <<>>
    /\ heap = <<>>
    /\ target = NoTarget
    /\ pc = "idle"
    /\ last = Outcome("init", "None", <<>>, <<>>, <<>>)
    /\ tick = 0
    /\ started = FALSE
    /\ alive = FALSE
    /\ events = <<>>
    /\ nPushed = 0
    /\ lastDispatch = NoDispatch

Next ==
    \/ Connect
    \/ SelectServer
    \/ SelectCharacter
    \/ PlayEnter
    \/ PlayIter
    \/ TimePasses
    \/ BrainProcess

Spec == Init /\ [][Next]_vars

\* -------------------------------------------------------------- SpecQueue
\* Brain.event on the receive thread against Brain.processEvents on the Brain
\* thread: every acquire, append, popleft and release is a step of its own.

\* The session right after the login-complete packet was processed: the Brain
\* thread has just been started.
InGame ==
    /\ status = "game"
    /\ lc = TRUE
    /\ pingDue = FALSE
    /\ net = [NewNetwork("game") EXCEPT !.compress = TRUE]
    /\ features = 3
    /\ player = 1
    /\ objects = (1 :> 1)
    /\ heap = (1 :> NewPlayer(1, 0))
    /\ target = NoTarget
    /\ pc = "play"
    /\ last = Outcome("play", "None", << <<"recv", "LoginComplete">> >> \o LoginCompleteSends
                        \o StartBrain,
                      <<>>, <<[kind |-> "LoginComplete"]>>)
    /\ tick = 0
    /\ started = TRUE
    /\ alive = TRUE
    /\ events = <<>>
    /\ nPushed = 0
    /\ lastDispatch = NoDispatch

QueueInit ==
    /\ InGame
    /\ QueueIdle
    /\ RecvIdle
    /\ PhIdle

\* what the steps of the two threads on the queue leave alone
offQueue == <<clientVars, worldVars, recvVars, phVars, nMsgs>>

\* self.eventsLock.acquire() returns only when no thread holds the lock
CanAcquireMut(l) == TRUE
CanAcquire(l) == l = "free"

\* the kinds of event the play loop creates
EventTypes == {EVT_HP_CHANGED, EVT_MANA_CHANGED, EVT_STAM_CHANGED}

\* Brain.event: the isinstance check, then self.eventsLock.acquire()
EventAcquire ==
    /\ ppc = "idle"
    /\ Len(pushed) < MaxPush
    /\ CanAcquire(lock)
    /\ \E t \in EventTypes : pev' = Event(t, Len(pushed), Len(pushed) + 1)
    /\ lock' = "receive"
    /\ ppc' = "locked"
    /\ UNCHANGED <<cpc, cev, pushed, popped>>
    /\ UNCHANGED <<started, alive, events, nPushed, lastDispatch>>
    /\ UNCHANGED offQueue

\* Brain.event: self.events.append(ev)
EventAppend ==
    /\ ppc = "locked"
    /\ events' = Push(events, <<pev>>)
    /\ nPushed' = nPushed + 1
    /\ pushed' = Append(pushed, pev)
    /\ ppc' = "appended"
    /\ UNCHANGED <<lock, cpc, pev, cev, popped>>
    /\ UNCHANGED <<started, alive, lastDispatch>>
    /\ UNCHANGED offQueue

\* Brain.event: self.eventsLock.release()
EventRelease ==
    /\ ppc = "appended"
    /\ lock' = "free"
    /\ ppc' = "idle"
    /\ UNCHANGED <<cpc, pev, cev, pushed, popped>>
    /\ UNCHANGED <<started, alive, events, nPushed, lastDispatch>>
    /\ UNCHANGED offQueue

\* Brain.run calls processEvents
ProcessEnter ==
    /\ alive
    /\ cpc = "out"
    /\ cpc' = "acquire"
    /\ UNCHANGED <<lock, ppc, pev, cev, pushed, popped>>
    /\ UNCHANGED <<started, alive, events, nPushed, lastDispatch>>
    /\ UNCHANGED offQueue

\* processEvents: self.eventsLock.acquire()
ProcessAcquire ==
    /\ cpc = "acquire"
    /\ CanAcquire(lock)
    /\ lock' = "brain"
    /\ cpc' = "check"
    /\ UNCHANGED <<ppc, pev, cev, pushed, popped>>
    /\ UNCHANGED <<started, alive, events, nPushed, lastDispatch>>
    /\ UNCHANGED offQueue

\* processEvents: if not len(self.events): release and return
ProcessCheck ==
    /\ cpc = "check"
    /\ IF Len(events) = 0
       THEN lock' = "free" /\ cpc' = "out"
       ELSE lock' = lock /\ cpc' = "pop"
    /\ UNCHANGED <<ppc, pev, cev, pushed, popped>>
    /\ UNCHANGED <<started, alive, events, nPushed, lastDispatch>>
    /\ UNCHANGED offQueue

\* processEvents: ev = self.events.popleft()
ProcessPop ==
    /\ cpc = "pop"
    /\ cev' = events[PopIndex(events)]
    /\ events' = RemoveAt(events, PopIndex(events))
    /\ popped' = Append(popped, cev')
    /\ cpc' = "release"
    /\ UNCHANGED <<lock, ppc, pev, pushed>>
    /\ UNCHANGED <<started, alive, nPushed, lastDispatch>>
    /\ UNCHANGED offQueue

\* processEvents: self.eventsLock.release()
ProcessRelease ==
    /\ cpc = "release"
    /\ lock' = "free"
    /\ cpc' = "dispatch"
    /\ UNCHANGED <<ppc, pev, cev, pushed, popped>>
    /\ UNCHANGED <<started, alive, events, nPushed, lastDispatch>>
    /\ UNCHANGED offQueue

\* processEvents: the handler is called, or NotImplementedError ends the thread
ProcessDispatch ==
    /\ cpc = "dispatch"
    /\ lastDispatch' = Dispatched(cev)
    /\ IF Handler(cev) = "NotImplementedError"
       THEN alive' = FALSE /\ cpc' = "dead"
       ELSE alive' = alive /\ cpc' = "acquire"
    /\ UNCHANGED <<lock, ppc, pev, cev, pushed, popped>>
    /\ UNCHANGED <<started, events, nPushed>>
    /\ UNCHANGED offQueue

QueueNext ==
    \/ EventAcquire
    \/ EventAppend
    \/ EventRelease
    \/ ProcessEnter
    \/ ProcessAcquire
    \/ ProcessCheck
    \/ ProcessPop
    \/ ProcessRelease
    \/ ProcessDispatch

SpecQueue == QueueInit /\ [][QueueNext]_vars

\* ---------------------------------------------------------------- SpecNet
\* Network.recv over the bytes of the socket.  The peer has sent a sequence of
\* messages; the socket hands their bytes out in reads of any size.

\* Network.DECOMPRESSION_TREE: node -> (child on bit 0, child on bit 1); a
\* value below 1 is a codeword: -256 the halt codeword, else minus the byte
DECOMPRESSION_TREE ==
    <<
       <<2, 1>>, <<4, 3>>, <<0, 5>>, <<7, 6>>, <<9, 8>>, <<11, 10>>, <<13, 12>>, <<14, -256>>,
       <<16, 15>>, <<18, 17>>, <<20, 19>>, <<22, 21>>, <<23, -1>>, <<25, 24>>, <<27, 26>>, <<29, 28>>,
       <<31, 30>>, <<33, 32>>, <<35, 34>>, <<37, 36>>, <<39, 38>>, <<-64, 40>>, <<42, 41>>, <<44, 43>>,
       <<45, -6>>, <<47, 46>>, <<49, 48>>, <<51, 50>>, <<52, -119>>, <<53, -32>>, <<-14, 54>>, <<-5, 55>>,
       <<57, 56>>, <<59, 58>>, <<-2, 60>>, <<62, 61>>, <<64, 63>>, <<66, 65>>, <<68, 67>>, <<70, 69>>,
       <<72, 71>>, <<73, -51>>, <<75, 74>>, <<77, 76>>, <<-111, -101>>, <<-97, -4>>, <<79, 78>>, <<80, -110>>,
       <<-116, 81>>, <<83, 82>>, <<-255, 84>>, <<86, 85>>, <<88, 87>>, <<90, 89>>, <<-10, -15>>, <<92, 91>>,
       <<93, -21>>, <<94, -117>>, <<96, 95>>, <<98, 97>>, <<100, 99>>, <<101, -114>>, <<102, -105>>, <<103, -26>>,
       <<105, 104>>, <<107, 106>>, <<109, 108>>, <<111, 110>>, <<-3, 112>>, <<-7, 113>>, <<-131, 114>>, <<-144, 115>>,
       <<117, 116>>, <<118, -20>>, <<120, 119>>, <<122, 121>>, <<124, 123>>, <<126, 125>>, <<128, 127>>, <<-100, 129>>,
       <<-8, 130>>, <<132, 131>>, <<134, 133>>, <<135, -120>>, <<-31, 136>>, <<138, 137>>, <<-234, -109>>, <<140, 139>>,
       <<142, 141>>, <<144, 143>>, <<145, -112>>, <<146, -19>>, <<148, 147>>, <<-66, 149>>, <<-145, 150>>, <<-65, -13>>,
       <<152, 151>>, <<154, 153>>, <<155, -30>>, <<157, 156>>, <<158, -99>>, <<160, 159>>, <<162, 161>>, <<163, -23>>,
       <<164, -29>>, <<165, -11>>, <<-115, 166>>, <<168, 167>>, <<170, 169>>, <<171, -16>>, <<172, -34>>, <<-132, 173>>,
       <<-108, 174>>, <<-22, 175>>, <<-9, 176>>, <<-84, 177>>, <<-37, -17>>, <<178, -28>>, <<180, 179>>, <<182, 181>>,
       <<184, 183>>, <<186, 185>>, <<-104, 187>>, <<-78, 188>>, <<-61, 189>>, <<-178, -79>>, <<-134, -59>>, <<-25, 190>>,
       <<-18, -83>>, <<-57, 191>>, <<192, -67>>, <<193, -98>>, <<-68, -12>>, <<195, 194>>, <<-128, -55>>, <<-50, -24>>,
       <<196, -70>>, <<-33, -94>>, <<-129, 197>>, <<198, -74>>, <<199, -82>>, <<-87, -56>>, <<200, -44>>, <<201, -248>>,
       <<-81, -163>>, <<-123, -52>>, <<-113, 202>>, <<-41, -48>>, <<-40, -122>>, <<-90, 203>>, <<204, -54>>, <<-192, -86>>,
       <<206, 205>>, <<-130, 207>>, <<208, -53>>, <<-45, -133>>, <<210, 209>>, <<-91, 211>>, <<213, 212>>, <<-88, -106>>,
       <<215, 214>>, <<217, 216>>, <<-49, 218>>, <<220, 219>>, <<222, 221>>, <<224, 223>>, <<226, 225>>, <<-102, 227>>,
       <<228, -160>>, <<229, -46>>, <<230, -127>>, <<231, -103>>, <<233, 232>>, <<234, -60>>, <<-76, 235>>, <<-121, 236>>,
       <<-73, 237>>, <<238, -149>>, <<-107, 239>>, <<240, -35>>, <<-27, -71>>, <<241, -69>>, <<-77, -89>>, <<-118, -62>>,
       <<-85, -75>>, <<-58, -72>>, <<-80, -63>>, <<-42, 242>>, <<-157, -150>>, <<-236, -139>>, <<-243, -126>>, <<-214, -142>>,
       <<-206, -138>>, <<-146, -240>>, <<-147, -204>>, <<-201, -152>>, <<-207, -227>>, <<-209, -154>>, <<-254, -153>>, <<-156, -176>>,
       <<-210, -165>>, <<-185, -172>>, <<-170, -195>>, <<-211, -232>>, <<-239, -219>>, <<-177, -200>>, <<-212, -175>>, <<-143, -244>>,
       <<-171, -246>>, <<-221, -203>>, <<-181, -202>>, <<-250, -173>>, <<-164, -184>>, <<-218, -193>>, <<-220, -199>>, <<-249, -190>>,
       <<-217, -230>>, <<-216, -169>>, <<-197, -191>>, <<243, -47>>, <<245, 244>>, <<247, 246>>, <<-159, -148>>, <<249, 248>>,
       <<-93, -92>>, <<-225, -96>>, <<-95, -151>>, <<251, 250>>, <<252, -241>>, <<-36, -161>>, <<254, 253>>, <<-39, -135>>,
       <<-124, -187>>, <<-251, 255>>, <<-238, -162>>, <<-38, -242>>, <<-125, -43>>, <<-253, -215>>, <<-208, -140>>, <<-235, -137>>,
       <<-237, -158>>, <<-205, -136>>, <<-141, -155>>, <<-229, -228>>, <<-168, -213>>, <<-194, -224>>, <<-226, -196>>, <<-233, -183>>,
       <<-167, -231>>, <<-189, -174>>, <<-166, -252>>, <<-222, -198>>, <<-179, -188>>, <<-182, -223>>, <<-186, -180>>, <<-247, -245>>
    >>
\* raise NoFullPacketError: the buffer ended before the halt codeword
ExhaustedMut(dest, srcPos) == [full |-> TRUE, raw |-> dest, size |-> srcPos]
Exhausted(dest, srcPos) == [full |-> FALSE, raw |-> <<>>, size |-> 0]

\* return ( dest, srcPos + 1): the halt codeword was found in byte srcPos
HaltedMut(dest, srcPos) == [full |-> TRUE, raw |-> dest, size |-> srcPos]
Halted(dest, srcPos) == [full |-> TRUE, raw |-> dest, size |-> srcPos + 1]

\* the loop of Network.decompress; srcPos counts from 0 as in the source
RECURSIVE DecompressFrom(_, _, _, _, _)
DecompressFrom(b, node, bitNum, srcPos, dest) ==
    IF ~(srcPos < Len(b)) THEN Exhausted(dest, srcPos)
    ELSE LET leaf == (b[srcPos + 1] \div (2 ^ (bitNum - 1))) % 2
             leafVal == DECOMPRESSION_TREE[node + 1][leaf + 1]
         IN IF leafVal = -256
            THEN Halted(dest, srcPos)
            ELSE LET d == IF leafVal < 1 THEN Append(dest, 0 - leafVal) ELSE dest
                     nd == IF leafVal < 1 THEN 0 ELSE leafVal
                 IN IF bitNum - 1 < 1
                    THEN DecompressFrom(b, nd, 8, srcPos + 1, d)
                    ELSE DecompressFrom(b, nd, bitNum - 1, srcPos, d)

\* Network.decompress: (decompressed, compressed_size), or NoFullPacketError
Decompress(b) == DecompressFrom(b, 0, 8, 0, <<>>)

\* Packet.__init__ before the cmd byte is read
NewPacket(raw) ==
    [cls |-> "", buf |-> raw, readCount |-> 0, exc |-> "None", args |-> <<>>,
     ret |-> <<>>, length |-> 0]

\* Packet.pb: the next num bytes of the packet's buffer, or EOFError
PbMut(p, num) ==
    IF p.exc # "None" THEN p
    ELSE IF num > Len(p.buf)
    THEN [p EXCEPT !.exc = "EOFError", !.ret = <<>>, !.readCount = @ + num]
    ELSE [p EXCEPT !.readCount = @ + num,
                   !.ret = SubSeq(p.buf, 1, num),
                   !.buf = SubSeq(p.buf, num + 1, Len(p.buf))]
Pb(p, num) ==
    IF p.exc # "None" THEN p
    ELSE IF num > Len(p.buf) THEN [p EXCEPT !.exc = "EOFError", !.ret = <<>>]
    ELSE [p EXCEPT !.readCount = @ + num,
                   !.ret = SubSeq(p.buf, 1, num),
                   !.buf = SubSeq(p.buf, num + 1, Len(p.buf))]

\* struct.unpack('>H', ...) of the bytes pb returned
UshortOf(p) == IF p.exc = "None" THEN p.ret[1] * 256 + p.ret[2] ELSE 0

\* struct.unpack('>I', ...) of the bytes pb returned
UintOf(p) ==
    IF p.exc = "None"
    THEN ((p.ret[1] * 256 + p.ret[2]) * 256 + p.ret[3]) * 256 + p.ret[4]
    ELSE 0

\* an exception raised inside a decoder
Raise(p, exc) == IF p.exc # "None" THEN p ELSE [p EXCEPT !.exc = exc]

\* the cmd bytes of the packets decoded here
LOGIN_COMPLETE == 85
PING == 115
SERVER_LIST == 168
GENERAL_INFO == 191
CLIENT_VERSION == 189

\* LoginCompletePacket.__init__: the cmd byte alone; length = 1
LoginCompletePacket(raw) == [Pb(NewPacket(raw), 1) EXCEPT !.length = 1]

\* PingPacket.__init__: cmd, seq; length = 2
PingPacket(raw) == [Pb(Pb(NewPacket(raw), 1), 1) EXCEPT !.length = 2]

\* the bytes of one entry of the server list: idx, name, full, tz, ip
ServerEntryLen == 40

\* ServerListPacket.__init__: cmd, length, flag, numServers, the entries
ServerListPacket(raw) ==
    LET pLen == Pb(Pb(NewPacket(raw), 1), 2)
        pNum == Pb(Pb(pLen, 1), 2)
        pAll == Pb(pNum, UshortOf(pNum) * ServerEntryLen)
    IN [pAll EXCEPT !.length = UshortOf(pLen)]

\* GeneralInfoPacket.__init__: cmd, length, sub, then what the subcommand
\* carries; a subcommand without a branch raises NotImplementedError
GeneralInfoPacket(raw) ==
    LET pLen == Pb(Pb(NewPacket(raw), 1), 2)
        pSub == Pb(pLen, 2)
        sub == UshortOf(pSub)
        pMaps == Pb(pSub, 4)
        body == CASE sub = 1 -> Pb(pSub, 6 * 4)
                  [] sub = 2 -> Pb(pSub, 4)
                  [] sub = 4 -> Pb(pSub, 2 * 4)
                  [] sub = 5 -> Pb(pSub, 4 * 2)
                  [] sub = 6 -> Pb(pSub, Len(pSub.buf))
                  [] sub = 8 -> Pb(pSub, 1)
                  [] sub = 10 -> Raise(pSub, "NotImplementedError: no longer used")
                  [] sub = 11 -> Pb(pSub, 3)
                  [] sub = 12 -> Pb(pSub, 4)
                  [] sub = 14 -> Pb(pSub, 4)
                  [] sub = 24 -> Pb(pMaps, UintOf(pMaps) * 2 * 4)
                  [] OTHER -> Raise(pSub, "NotImplementedError: Subcommand not implemented")
    IN [body EXCEPT !.length = UshortOf(pLen)]

\* Ph.HANDLERS[cmd](buf): the packet the class registered for the first byte
\* builds, and KeyError when none is registered
PhHandlers(raw) ==
    CASE raw[1] = LOGIN_COMPLETE ->
           [LoginCompletePacket(raw) EXCEPT !.cls = "LoginCompletePacket"]
      [] raw[1] = PING -> [PingPacket(raw) EXCEPT !.cls = "PingPacket"]
      [] raw[1] = SERVER_LIST -> [ServerListPacket(raw) EXCEPT !.cls = "ServerListPacket"]
      [] raw[1] = GENERAL_INFO ->
           [GeneralInfoPacket(raw) EXCEPT !.cls = "GeneralInfoPacket"]
      [] OTHER -> [NewPacket(raw) EXCEPT !.exc = "KeyError"]

\* except KeyError: the exceptions of the try block reported as an unknown
\* packet
ReportedUnknownMut(exc) == exc # "None"
ReportedUnknown(exc) == exc = "KeyError"

\* raise NotImplementedError("Unknown packet 0x%0.2X, %d bytes\n%s" % (cmd,
\* len(buf), buf)): no packet is built
UnknownPacketError(raw) ==
    [NewPacket(raw) EXCEPT !.exc = "NotImplementedError: Unknown packet",
                           !.args = <<raw[1], Len(raw), raw>>]

\* Ph.process
PhProcess(raw) ==
    LET p == PhHandlers(raw)
    IN IF ReportedUnknown(p.exc) THEN UnknownPacketError(raw) ELSE p

\* Packet.validate passes when the declared length is the count of bytes read
ValidateMut(p) == TRUE
Validate(p) == p.length = p.readCount

\* self.buf += data
BufAfterReadMut(b, data) == data
BufAfterRead(b, data) == b \o data

\* the outcome of one call of Network.recv
RecvOutcome(exc, raw, size, declared, consumed, before, idx) ==
    [exc |-> exc, raw |-> raw, size |-> size, declared |-> declared,
     consumed |-> consumed, before |-> before, idx |-> idx, retries |-> retries]

\* Network.recv from "if not raw" on: the exception it ends with ("None" when
\* it returns the packet), the declared length and the bytes consumed
RecvFinish(raw) ==
    IF raw = <<>> THEN [exc |-> "NotImplementedError", declared |-> 0, consumed |-> 0]
    ELSE LET p == PhProcess(raw) IN
         IF p.exc # "None" THEN [exc |-> p.exc, declared |-> 0, consumed |-> 0]
         ELSE IF ~Validate(p)
         THEN [exc |-> "RuntimeError: Len mismatch", declared |-> p.length,
               consumed |-> p.readCount]
         ELSE IF p.length # Len(raw)
         THEN [exc |-> "AssertionError", declared |-> p.length, consumed |-> p.readCount]
         ELSE [exc |-> "None", declared |-> p.length, consumed |-> p.readCount]

\* The messages the peer sends: the bytes of each as sent with compression off
\* (raw) and with compression on (z); ok: the declared length is the true one.
\* The last is a server list that declares one byte more than its fields.
Msgs ==
    { [name |-> "LoginComplete", raw |-> <<85>>, z |-> <<68, 104>>, ok |-> TRUE],
      [name |-> "Ping", raw |-> <<115, 1>>, z |-> <<118, 254, 128>>, ok |-> TRUE],
      [name |-> "ServerList", raw |-> <<168, 0, 6, 0, 0, 0>>,
       z |-> <<124, 71, 96, 104>>, ok |-> TRUE],
      [name |-> "ServerListLong", raw |-> <<168, 0, 7, 0, 0, 0, 0>>,
       z |-> <<124, 67, 32, 13>>, ok |-> FALSE] }

\* the bytes of a message on the wire
Wire(m, compress) == IF compress THEN m.z ELSE m.raw

RECURSIVE WireOf(_, _)
WireOf(ms, compress) ==
    IF ms = <<>> THEN <<>> ELSE Wire(Head(ms), compress) \o WireOf(Tail(ms), compress)

\* n bytes of a compressed run that never reaches the halt codeword: every
\* pair of zero bits is the codeword of the byte 0
Junk(n) == [i \in 1..n |-> 0]

\* connect has opened the authentication Network and its receive has failed
AuthOutcome ==
    Outcome("connect", "RuntimeError",
            << <<"send", "ident">>, <<"send", "LoginRequest">>, <<"recv", "NetError">> >>,
            <<>>, <<NetError>>)

\* selectServer has opened the game Network, has turned compression on and
\* its receive of the feature flags has failed
GameOutcome ==
    Outcome("selectServer", "RuntimeError",
            << <<"send", "SelectServer">>, <<"recv", "ConnectToGameServer">>,
               <<"close", "auth">>, <<"open", "game">>, <<"send", "key">>,
               <<"send", "GameServerLogin">>, <<"compress", "on">>,
               <<"recv", "NetError">> >>,
            <<>>, <<[kind |-> "ConnectToGameServer", key |-> 7], NetError>>)

\* The session that holds a Network: the authentication one (compression
\* off) or the game one (compression on).
Receiving(compress) ==
    /\ status = IF compress THEN "connected" ELSE "disconnected"
    /\ net = IF compress THEN [NewNetwork("game") EXCEPT !.compress = TRUE]
                         ELSE NewNetwork("auth")
    /\ last = IF compress THEN GameOutcome ELSE AuthOutcome
    /\ tick = IF compress THEN 0 ELSE 1
    /\ lc = FALSE
    /\ pingDue = TRUE
    /\ features = None
    /\ player = NoOid
    /\ objects = <<>>
    /\ heap = <<>>
    /\ target = NoTarget
    /\ pc = "idle"
    /\ started = FALSE
    /\ alive = FALSE
    /\ events = <<>>
    /\ nPushed = 0
    /\ lastDispatch = NoDispatch

NetInit ==
    /\ QueueIdle
    /\ PhIdle
    /\ \E compress \in BOOLEAN :
         /\ Receiving(compress)
         /\ \E n \in 1..MaxMsgs : \E ms \in [1..n -> Msgs] :
              \E j \in 0..(IF compress THEN MaxJunk ELSE 0) :
                /\ sent = ms
                /\ wire = WireOf(ms, compress) \o Junk(j)
    /\ peerClosed \in BOOLEAN
    /\ buf = <<>>
    /\ rpc = "idle"
    /\ rlast = NoRecv
    /\ nDelivered = 0
    /\ retries = 0

\* what the steps of Network.recv leave alone
offNet == <<clientVars, worldVars, brainVars, queueVars, phVars, nMsgs>>

\* Network.recv is called: it reads when the buffer is empty
RecvCall ==
    /\ rpc = "idle"
    /\ rpc' = IF Len(buf) < 1 THEN "read" ELSE "decode"
    /\ retries' = 0
    /\ UNCHANGED <<wire, peerClosed, buf, rlast, sent, nDelivered>>
    /\ UNCHANGED offNet

\* if not len(data): raise RuntimeError("Disconnected"): where the call goes
\* and what it leaves in the buffer
AfterZeroReadMut(b) == [rpc |-> "read", buf |-> b]
AfterZeroRead(b) == [rpc |-> "idle", buf |-> b]

\* data = self.sock.recv(4096): some of the bytes on their way, at least one;
\* none when the peer has closed; the call blocks while there is nothing
RecvRead ==
    /\ rpc = "read"
    /\ \/ /\ wire # <<>>
          /\ \E n \in 1..Len(wire) :
               /\ buf' = BufAfterRead(buf, SubSeq(wire, 1, n))
               /\ wire' = SubSeq(wire, n + 1, Len(wire))
          /\ rpc' = "decode"
          /\ UNCHANGED rlast
       \/ /\ wire = <<>>
          /\ peerClosed
          /\ rpc' = AfterZeroRead(buf).rpc
          /\ buf' = AfterZeroRead(buf).buf
          /\ rlast' = RecvOutcome("RuntimeError: Disconnected", <<>>, 0, 0, 0, buf,
                                  nDelivered + 1)
          /\ UNCHANGED wire
    /\ UNCHANGED <<peerClosed, sent, nDelivered, retries>>
    /\ UNCHANGED offNet

\* Network.recv after the read: decompress, decode, validate, trim
RecvDecode ==
    /\ rpc = "decode"
    /\ \E d \in {IF net.compress THEN Decompress(buf)
                  ELSE [full |-> TRUE, raw |-> buf, size |-> Len(buf)]} :
          IF ~d.full
          THEN /\ rpc' = "read"
               /\ retries' = retries + 1
               /\ UNCHANGED <<buf, rlast, nDelivered>>
          ELSE LET r == RecvFinish(d.raw) IN
               /\ rpc' = "idle"
               /\ rlast' = RecvOutcome(r.exc, d.raw, d.size, r.declared, r.consumed, buf,
                                       nDelivered + 1)
               /\ buf' = IF r.exc = "None" THEN SubSeq(buf, d.size + 1, Len(buf)) ELSE buf
               /\ nDelivered' = IF r.exc = "None" THEN nDelivered + 1 ELSE nDelivered
               /\ UNCHANGED retries
    /\ UNCHANGED <<wire, peerClosed, sent>>
    /\ UNCHANGED offNet

NetNext ==
    \/ RecvCall
    \/ RecvRead
    \/ RecvDecode

SpecNet == NetInit /\ [][NetNext]_vars

\* ---------------------------------------------------------- SpecDecompress
\* Network.decompress applied to a buffer.

\* the bytes of the buffers: 0x00 is four codewords of the byte 0; 0x0d and
\* 0x34 hold the halt codeword after two and after one of them, 0xd0 opens
\* with it; 0x03 0x40 holds it across the two bytes; 0xff is no codeword
SrcBytes == {0, 3, 13, 52, 64, 208, 255}

\* the session is as it is when the game Network receives
DecompressInit ==
    /\ InGame
    /\ QueueIdle
    /\ RecvIdle
    /\ phIn = <<>>
    /\ phOut = NoPacket
    /\ nMsgs = 0
    /\ \E n \in 0..MaxSrc : arg \in [1..n -> SrcBytes]
    /\ res = NoResult

\* self.decompress(self.buf)
DecompressCall ==
    /\ res = NoResult
    /\ res' = Decompress(arg)
    /\ UNCHANGED <<phIn, phOut, arg, nMsgs>>
    /\ UNCHANGED <<clientVars, worldVars, brainVars, queueVars, recvVars>>

DecompressNext == DecompressCall

SpecDecompress == DecompressInit /\ [][DecompressNext]_vars

\* ------------------------------------------------------------------ SpecPh
\* Ph.process applied to a buffer.

\* the bytes of the buffers: zero, the general-info subcommands 1 and 8 (no
\* command has these ids), and the four command ids decoded here
PhBytes == {0, 1, 8, LOGIN_COMPLETE, PING, SERVER_LIST, GENERAL_INFO}

\* the session and the Network are as they are when play receives
PhInit ==
    /\ InGame
    /\ QueueIdle
    /\ RecvIdle
    /\ \E n \in 1..MaxLen : phIn \in [1..n -> PhBytes]
    /\ phOut = NoPacket
    /\ arg = <<>>
    /\ res = NoResult
    /\ nMsgs = 0

\* pkt = Ph.process(raw)
PhCall ==
    /\ phOut = NoPacket
    /\ phOut' = PhProcess(phIn)
    /\ UNCHANGED <<phIn, arg, res>>
    /\ UNCHANGED <<clientVars, worldVars, brainVars, queueVars, recvVars, nMsgs>>

PhNext == PhCall

SpecPh == PhInit /\ [][PhNext]_vars

\* --------------------------------------------------------------- SpecWorld
\* The play loop over the messages that draw, update and delete the objects
\* of the world and fill the containers.

\* the serials of the objects the server speaks of
WorldSerials == 1..(MaxSerial + 1)
Graphics == {0, 1}
\* the serial after s, the first after the last
NextSerial(s) == (s % (MaxSerial + 1)) + 1

\* an entry of a container-content message
Entries ==
    {[container |-> p[1], serial |-> p[2], graphic |-> 1, amount |-> 2] :
       p \in {q \in WorldSerials \X WorldSerials : q[1] # q[2]}}

\* the outcomes offered to the receive of the play loop
WorldOutcomes ==
         {[kind |-> "LoginComplete"]}
    \cup {[kind |-> "CharLocaleBody", serial |-> s, graphic |-> 0] : s \in WorldSerials}
    \cup {[kind |-> "DrawObject", serial |-> s, graphic |-> g, equip |-> <<>>] :
            s \in WorldSerials, g \in Graphics}
    \cup {[kind |-> "DrawObject", serial |-> s, graphic |-> 0,
           equip |-> <<[serial |-> NextSerial(s), graphic |-> 1]>>] : s \in WorldSerials}
    \cup {[kind |-> "UpdatePlayer", serial |-> s, graphic |-> g] :
            s \in WorldSerials, g \in Graphics}
    \cup {[kind |-> "ObjectInfo", serial |-> s, graphic |-> g, count |-> 2] :
            s \in WorldSerials, g \in Graphics}
    \cup {[kind |-> "DeleteObject", serial |-> s] : s \in WorldSerials}
    \cup {[kind |-> "DrawContainer", serial |-> s] : s \in WorldSerials}
    \cup {[kind |-> "AddItemToContainer", items |-> <<a>>] : a \in Entries}
    \cup {[kind |-> "AddItemsToContainer", items |-> p] :
            p \in {q \in Entries \X Entries : q[2].serial = NextSerial(q[1].serial)}}
    \cup {[kind |-> "UpdateHealth", serial |-> s, cur |-> 1, max |-> MaxOf(1)] :
            s \in WorldSerials}

\* play has entered its loop and no message has arrived
BeforeLogin ==
    /\ status = "game"
    /\ lc = FALSE
    /\ pingDue = FALSE
    /\ net = [NewNetwork("game") EXCEPT !.compress = TRUE]
    /\ features = 3
    /\ player = NoOid
    /\ objects = <<>>
    /\ heap = <<>>
    /\ target = NoTarget
    /\ pc = "play"
    /\ last = Outcome("play", "None", <<>>, <<>>, <<>>)
    /\ tick = 0
    /\ started = FALSE
    /\ alive = FALSE
    /\ events = <<>>
    /\ nPushed = 0
    /\ lastDispatch = NoDispatch

\* after the login an item info for serial 2 and a draw-container for it have
\* been processed: the world holds the player and an empty Container
WithContainer ==
    /\ status = "game"
    /\ lc = TRUE
    /\ pingDue = FALSE
    /\ net = [NewNetwork("game") EXCEPT !.compress = TRUE]
    /\ features = 3
    /\ player = 1
    /\ objects = (1 :> 1) @@ (2 :> 2)
    /\ heap = (1 :> NewPlayer(1, 0))
                @@ (2 :> [NewItem EXCEPT !.cls = "Container", !.serial = 2,
                                         !.graphic = 0, !.amount = 2])
    /\ target = NoTarget
    /\ pc = "play"
    /\ last = Outcome("play", "None", << <<"recv", "DrawContainer">> >>, <<>>,
                      <<[kind |-> "DrawContainer", serial |-> 2]>>)
    /\ tick = 0
    /\ started = TRUE
    /\ alive = TRUE
    /\ events = <<>>
    /\ nPushed = 0
    /\ lastDispatch = NoDispatch

\* the loop starts before the login, right after its completion, or with a
\* Container in the world
WorldInit ==
    /\ BeforeLogin \/ InGame \/ WithContainer
    /\ QueueIdle
    /\ RecvIdle
    /\ PhIdle

\* one iteration of the loop of Client.play
WorldStep ==
    /\ pc = "play"
    /\ nMsgs < MaxWorldMsgs
    /\ \E m \in WorldOutcomes : PlayStep(m)
    /\ nMsgs' = nMsgs + 1
    /\ UNCHANGED <<queueVars, recvVars, phVars>>

WorldNext == WorldStep

SpecWorld == WorldInit /\ [][WorldNext]_vars

\* --------------------------------------------------------------- PacketOut
\* An outbound packet: the bytes written, the index of the length placeholder
\* (None when ulen was not called) and the exception a call has ended with.

\* struct.pack('>H', v) and struct.pack('>I', v)
PackH(v) == <<v \div 256, v % 256>>
PackI(v) == <<v \div 16777216, (v \div 65536) % 256, (v \div 256) % 256, v % 256>>

\* a call on a packet that has raised is not made
PacketOutWrite(po, ok, bytes) ==
    IF po.exc # "None" THEN po
    ELSE IF ~ok THEN [po EXCEPT !.exc = "ValueError"]
    ELSE [po EXCEPT !.buf = @ \o bytes]

\* PacketOut.uchar, PacketOut.ushort, PacketOut.uint: the value must be in
\* the range of the type
PacketOutUchar(po, val) == PacketOutWrite(po, val >= 0 /\ val <= 255, <<val>>)
PacketOutUshortMut(po, val) == PacketOutWrite(po, val >= 0, PackH(val))
PacketOutUshort(po, val) == PacketOutWrite(po, val >= 0 /\ val <= 65535, PackH(val))
\* the value of uint is hi * 65536 + lo with lo in 0..65535: a value up to
\* 0xffffffff and beyond, as well as one below zero, is given in two halves
PacketOutUintOf(po, hi, lo) ==
    PacketOutWrite(po, hi >= 0 /\ hi <= 65535, PackH(hi) \o PackH(lo))
PacketOutUint(po, val) == PacketOutUintOf(po, val \div 65536, val % 65536)

\* PacketOut has no method schar: the call raises AttributeError
PacketOutSchar(po, val) ==
    IF po.exc # "None" THEN po ELSE [po EXCEPT !.exc = "AttributeError"]

\* PacketOut.__init__
PacketOut(cmd) == PacketOutUchar([buf |-> <<>>, lenIdx |-> None, exc |-> "None"], cmd)

\* ---------------------------------------------------------------- SpecTarget
\* The targeting cursor: the play loop stores the request of the server, the
\* script answers it through Target.target.

\* TargetCursorPacket.cmd
TARGET_CURSOR == 108
\* Target.OBJECT
OBJECT == 0

\* Target.target(obj): the packet is built, the Target of the client is
\* cleared, the packet is sent
TargetTarget(tgt, obj) ==
    IF tgt.what # OBJECT THEN [exc |-> "AssertionError", target |-> target, sent |-> <<>>]
    ELSE LET p1 == PacketOutUchar(PacketOut(TARGET_CURSOR), tgt.what)
             p2 == PacketOutUchar(PacketOutUint(p1, tgt.id), tgt.type)
             p3 == PacketOutUshort(PacketOutUshort(PacketOutUint(p2, obj.serial), 0), 0)
             po == PacketOutUshort(PacketOutSchar(PacketOutUchar(p3, 0), 0), 0)
         IN IF po.exc # "None" THEN [exc |-> po.exc, target |-> target, sent |-> <<>>]
            ELSE [exc |-> "None", target |-> NoTarget, sent |-> po.buf]

\* the requests of the server: kind, cursor id, disposition
TargetCursors ==
    {[kind |-> "TargetCursor", what |-> w, id |-> i, type |-> t] :
       w \in {0, 1}, i \in Serials, t \in {0, 1, 2}}

\* the outcomes offered to the receive of the play loop
TargetOutcomes == TargetCursors \cup {[kind |-> "Ping"]}

TargetInit ==
    /\ BeforeLogin \/ InGame
    /\ QueueIdle
    /\ RecvIdle
    /\ PhIdle

\* one iteration of the loop of Client.play
TargetStep ==
    /\ pc = "play"
    /\ nMsgs < MaxWorldMsgs
    /\ \E m \in TargetOutcomes : PlayStep(m)
    /\ nMsgs' = nMsgs + 1
    /\ UNCHANGED <<queueVars, recvVars, phVars>>

\* the script, run by the Brain, answers the Target the client holds with one
\* of the objects it knows
TargetReply ==
    /\ started /\ alive
    /\ target # NoTarget
    /\ \E s \in DOMAIN objects :
         LET r == TargetTarget(target, heap[objects[s]])
         IN /\ target' = r.target
            /\ last' = Outcome("target", r.exc,
                               IF r.exc = "None" THEN << <<"send", "TargetCursor">> >> ELSE <<>>,
                               r.sent, <<>>)
    /\ tick' = 1 - tick
    /\ UNCHANGED <<status, lc, pingDue, net, features, pc>>
    /\ UNCHANGED <<player, objects, heap>>
    /\ UNCHANGED brainVars
    /\ UNCHANGED <<queueVars, recvVars, phVars, nMsgs>>

TargetNext ==
    \/ TargetStep
    \/ TargetReply

SpecTarget == TargetInit /\ [][TargetNext]_vars

\* ---------------------------------------------------------------- SpecDecode
\* The decoders of the packets with optional and repeated fields, applied to
\* the messages a server builds for them.

\* an optional attribute: <<>> is None and <<v>> the value v, so that None is
\* no value a field can carry
Absent == <<>>
Some(v) == <<v>>

\* struct.unpack('B', ...) and struct.unpack('b', ...) of the byte pb returned
UcharOf(p) == IF p.exc = "None" THEN p.ret[1] ELSE 0
ScharOf(p) == IF p.exc = "None" THEN (IF p.ret[1] >= 128 THEN p.ret[1] - 256 ELSE p.ret[1]) ELSE 0

\* the byte of a signed char
SByte(v) == (v + 256) % 256

\* a constructor that raised: there is no packet
Raised(cls, p) == [cls |-> cls, exc |-> p.exc]

\* ObjectInfoPacket.cmd
OBJECT_INFO == 26

\* x & 0x8000, y & 0x8000, y & 0x4000: the bits that announce facing, color, flag
HasFacing(x) == (x \div 32768) % 2 = 1
HasColorMut(y) == (y \div 16384) % 2 = 1
HasColor(y) == (y \div 32768) % 2 = 1
HasFlag(y) == (y \div 16384) % 2 = 1

\* ObjectInfoPacket.__init__; the serial is kept as its four bytes (its top
\* bit announces count), the other numbers as integers
ObjectInfoPacket(raw) ==
    LET pLen == Pb(Pb(NewPacket(raw), 1), 2)
        pSerial == Pb(pLen, 4)
        pGraphic == Pb(pSerial, 2)
        hasCount == pSerial.exc = "None" /\ pSerial.ret[1] >= 128
        pCount == IF hasCount THEN Pb(pGraphic, 2) ELSE pGraphic
        hasAdd == UshortOf(pGraphic) >= 32768
        pAdd == IF hasAdd THEN Pb(pCount, 1) ELSE pCount
        pX == Pb(pAdd, 2)
        x == UshortOf(pX)
        pY == Pb(pX, 2)
        y == UshortOf(pY)
        pFacing == IF HasFacing(x) THEN Pb(pY, 1) ELSE pY
        pZ == Pb(pFacing, 1)
        pColor == IF HasColor(y) THEN Pb(pZ, 2) ELSE pZ
        pFlag == IF HasFlag(y) THEN Pb(pColor, 1) ELSE pColor
    IN IF pFlag.exc # "None" THEN Raised("ObjectInfoPacket", pFlag)
       ELSE [cls |-> "ObjectInfoPacket", exc |-> "None",
             readCount |-> pFlag.readCount,
             length |-> UshortOf(pLen),
             serial |-> pSerial.ret,
             graphic |-> UshortOf(pGraphic) + (IF hasAdd THEN UcharOf(pAdd) ELSE 0),
             count |-> IF hasCount THEN Some(UshortOf(pCount)) ELSE Absent,
             facing |-> IF HasFacing(x) THEN Some(ScharOf(pFacing)) ELSE Absent,
             z |-> ScharOf(pZ),
             color |-> IF HasColor(y) THEN Some(UshortOf(pColor)) ELSE Absent,
             flag |-> IF HasFlag(y) THEN Some(UcharOf(pFlag)) ELSE Absent,
             x |-> x % 32768,
             y |-> y % 16384]

\* the item-info messages: with and without count, with and without the byte
\* added to the graphic, coordinates with all their bits set, and every
\* choice of facing, color and flag
Options(vals) == {Absent} \cup {Some(v) : v \in vals}
ObjectInfoMsgs ==
    [serial : {<<0, 0, 0, 1>>, <<128, 0, 0, 1>>},
     graphic : {7, 32775},
     x : {258, 32767},
     y : {3, 16383},
     z : {-3},
     facing : Options({-1, 5}),
     color : Options({0, 513}),
     flag : Options({0, 9})]

\* the bytes of an item-info message, in the order ObjectInfoPacket reads them
ObjectInfoBody(m) ==
    m.serial \o PackH(m.graphic)
    \o (IF m.serial[1] >= 128 THEN PackH(2) ELSE <<>>)
    \o (IF m.graphic >= 32768 THEN <<4>> ELSE <<>>)
    \o PackH(m.x + (IF m.facing # Absent THEN 32768 ELSE 0))
    \o PackH(m.y + (IF m.color # Absent THEN 32768 ELSE 0)
                 + (IF m.flag # Absent THEN 16384 ELSE 0))
    \o (IF m.facing # Absent THEN <<SByte(m.facing[1])>> ELSE <<>>)
    \o <<SByte(m.z)>>
    \o (IF m.color # Absent THEN PackH(m.color[1]) ELSE <<>>)
    \o (IF m.flag # Absent THEN <<m.flag[1]>> ELSE <<>>)

\* cmd, the declared length, the body
Framed(cmd, body) == <<cmd>> \o PackH(Len(body) + 3) \o body

ObjectInfoBytes(m) == Framed(OBJECT_INFO, ObjectInfoBody(m))

\* DrawObjectPacket.cmd
DRAW_OBJECT == 120

\* the loop of DrawObjectPacket.__init__: entries up to a serial of zero
RECURSIVE DrawObjectEquip(_, _)
DrawObjectEquip(p, equip) ==
    LET pSerial == Pb(p, 4)
        pGraphic == Pb(pSerial, 2)
        pLayer == Pb(pGraphic, 1)
        hasColor == UshortOf(pGraphic) >= 32768
        pColor == IF hasColor THEN Pb(pLayer, 2) ELSE pLayer
    IN IF pSerial.exc # "None" \/ UintOf(pSerial) = 0
       THEN [p |-> pSerial, equip |-> equip]
       ELSE IF pColor.exc # "None" THEN [p |-> pColor, equip |-> equip]
       ELSE DrawObjectEquip(pColor,
                Append(equip, [serial |-> UintOf(pSerial),
                               graphic |-> UshortOf(pGraphic),
                               layer |-> UcharOf(pLayer),
                               color |-> IF hasColor THEN UshortOf(pColor) ELSE 0]))

\* after the loop nothing is read (an earlier revision read one more byte
\* when the list was empty)
ClosingByteMut(p, equip) == IF equip = <<>> THEN Pb(p, 1) ELSE p
ClosingByte(p, equip) == p

\* DrawObjectPacket.__init__
DrawObjectPacket(raw) ==
    LET pLen == Pb(Pb(NewPacket(raw), 1), 2)
        pSerial == Pb(pLen, 4)
        pGraphic == Pb(pSerial, 2)
        pX == Pb(pGraphic, 2)
        pY == Pb(pX, 2)
        pZ == Pb(pY, 1)
        pFacing == Pb(pZ, 1)
        pColor == Pb(pFacing, 2)
        pFlag == Pb(pColor, 1)
        pNotoriety == Pb(pFlag, 1)
        loop == DrawObjectEquip(pNotoriety, <<>>)
        pEnd == ClosingByte(loop.p, loop.equip)
    IN IF pEnd.exc # "None" THEN Raised("DrawObjectPacket", pEnd)
       ELSE [cls |-> "DrawObjectPacket", exc |-> "None",
             readCount |-> pEnd.readCount,
             length |-> UshortOf(pLen),
             serial |-> UintOf(pSerial),
             graphic |-> UshortOf(pGraphic),
             x |-> UshortOf(pX),
             y |-> UshortOf(pY),
             z |-> ScharOf(pZ),
             facing |-> ScharOf(pFacing),
             color |-> UshortOf(pColor),
             flag |-> UcharOf(pFlag),
             notoriety |-> UcharOf(pNotoriety),
             equip |-> loop.equip]

\* what a mobile wears: items with a graphic below 0x8000 and no color, and
\* items with a graphic from 0x8000 on and a color
EquipEntries ==
    [serial : {1, 2}, graphic : {5}, layer : {1}, color : {0}]
    \cup [serial : {1, 2}, graphic : {32773}, layer : {2}, color : {513}]

\* the draw messages: any list of up to MaxEquip items; `closing` is the
\* number of bytes sent after the terminator
DrawObjectMsgs ==
    [serial : {1}, graphic : {400}, x : {100}, y : {200}, z : {-1},
     facing : {3}, color : {0}, flag : {0}, notoriety : {1},
     equip : UNION {[1..n -> EquipEntries] : n \in 0..MaxEquip},
     closing : {0, 1}]

\* the bytes of the items, each with its color when the graphic announces it
RECURSIVE EquipBytes(_)
EquipBytes(equip) ==
    IF equip = <<>> THEN <<>>
    ELSE LET it == Head(equip)
         IN PackI(it.serial) \o PackH(it.graphic) \o <<it.layer>>
            \o (IF it.graphic >= 32768 THEN PackH(it.color) ELSE <<>>)
            \o EquipBytes(Tail(equip))

\* the bytes of a draw message, in the order DrawObjectPacket reads them
DrawObjectBody(m) ==
    PackI(m.serial) \o PackH(m.graphic) \o PackH(m.x) \o PackH(m.y)
    \o <<SByte(m.z), SByte(m.facing)>> \o PackH(m.color)
    \o <<m.flag, m.notoriety>>
    \o EquipBytes(m.equip) \o PackI(0)
    \o [i \in 1..m.closing |-> 0]

DrawObjectBytes(m) == Framed(DRAW_OBJECT, DrawObjectBody(m))

\* StatusBarInfoPacket.cmd
STATUS_BAR_INFO == 17

\* the bytes of the name
NameLen == 30

\* n times self.ushort(), the values appended to vals: the 2 * n bytes are
\* there and are read, or one of the reads raises EOFError
Ushorts(p, n, vals) ==
    LET q == Pb(p, 2 * n)
    IN [p |-> q,
        vals |-> IF q.exc # "None" THEN vals
                 ELSE vals \o [i \in 1..n |-> q.ret[2 * i - 1] * 256 + q.ret[2 * i]]]

\* self.uint(), the value appended to vals as its two 16-bit halves (any
\* four bytes can be read here)
Uint(p, vals) ==
    LET q == Pb(p, 4)
    IN [p |-> q,
        vals |-> IF q.exc # "None" THEN vals
                 ELSE vals \o <<q.ret[1] * 256 + q.ret[2], q.ret[3] * 256 + q.ret[4]>>]

\* gener, str, dex, int, stam, maxstam, mana, maxmana, gold, ar, weight
StatusBase(p) ==
    LET pGener == Pb(p, 1)
        stats == Ushorts(pGener, 7, <<UcharOf(pGener)>>)
        gold == Uint(stats.p, stats.vals)
    IN Ushorts(gold.p, 2, gold.vals)

\* maxweight, race
StatusWeightRace(p) ==
    LET pMax == Pb(p, 2)
        pRace == Pb(pMax, 1)
    IN [p |-> pRace, vals |-> <<UshortOf(pMax), UcharOf(pRace)>>]

\* statcap, followers, maxfollowers
StatusCap(p) ==
    LET pCap == Pb(p, 2)
        pFol == Pb(pCap, 1)
        pMax == Pb(pFol, 1)
    IN [p |-> pMax, vals |-> <<UshortOf(pCap), UcharOf(pFol), UcharOf(pMax)>>]

\* rfire, rcold, rpoison, renergy, luck, mindmg, maxdmg, tithing
StatusResist(p) ==
    LET res7 == Ushorts(p, 7, <<>>)
    IN Uint(res7.p, res7.vals)

\* hitinc ... maxmanainc: 23 numbers
StatusIncs(p) == Ushorts(p, 23, <<>>)

\* a group of fields that is not read leaves its attributes unset
Skip(p) == [p |-> p, vals |-> <<>>]

\* the values of flag that make the decoder read each group
ReadsBase(flag) == flag # 0
ReadsWeightRaceMut(flag) == flag >= 2
ReadsWeightRace(flag) == flag >= 5
ReadsCap(flag) == flag >= 3
ReadsResist(flag) == flag >= 4
ReadsIncs(flag) == flag >= 6

\* StatusBarInfoPacket.__init__; a group of attributes is the sequence of
\* its values in the order read, <<>> when the attributes are not set
StatusBarInfoPacket(raw) ==
    LET pLen == Pb(Pb(NewPacket(raw), 1), 2)
        pSerial == Pb(pLen, 4)
        pName == Pb(pSerial, NameLen)
        pHp == Pb(pName, 2)
        pMaxhp == Pb(pHp, 2)
        pRename == Pb(pMaxhp, 1)
        pFlag == Pb(pRename, 1)
        flag == UcharOf(pFlag)
        base == IF ReadsBase(flag) THEN StatusBase(pFlag) ELSE Skip(pFlag)
        wr == IF ReadsBase(flag) /\ ReadsWeightRace(flag)
              THEN StatusWeightRace(base.p) ELSE Skip(base.p)
        cap == IF ReadsBase(flag) /\ ReadsCap(flag)
               THEN StatusCap(wr.p) ELSE Skip(wr.p)
        resist == IF ReadsBase(flag) /\ ReadsResist(flag)
                  THEN StatusResist(cap.p) ELSE Skip(cap.p)
        incs == IF ReadsBase(flag) /\ ReadsIncs(flag)
                THEN StatusIncs(resist.p) ELSE Skip(resist.p)
    IN IF incs.p.exc # "None" THEN Raised("StatusBarInfoPacket", incs.p)
       ELSE [cls |-> "StatusBarInfoPacket", exc |-> "None",
             readCount |-> incs.p.readCount,
             length |-> UshortOf(pLen),
             serial |-> UintOf(pSerial),
             name |-> pName.ret,
             hp |-> UshortOf(pHp),
             maxhp |-> UshortOf(pMaxhp),
             canrename |-> UcharOf(pRename),
             flag |-> flag,
             base |-> base.vals,
             weightRace |-> wr.vals,
             capFollowers |-> cap.vals,
             resistances |-> resist.vals,
             increments |-> incs.vals]

\* the values a status message carries in each group of fields (gold is
\* 70000 and tithing 80000, in halves)
BaseVals == <<1, 10, 11, 12, 13, 14, 15, 16, 1, 4464, 17, 18>>
WeightRaceVals == <<20, 2>>
CapVals == <<225, 3, 5>>
ResistVals == <<30, 31, 32, 33, 34, 35, 36, 1, 14464>>
IncVals == [i \in 1..23 |-> 40 + i]

\* the status messages: every value of the flag byte, with any of the groups
StatusMsgs ==
    [flag : 0..255,
     base : {<<>>, BaseVals},
     weightRace : {<<>>, WeightRaceVals},
     capFollowers : {<<>>, CapVals},
     resistances : {<<>>, ResistVals},
     increments : {<<>>, IncVals}]

\* numbers written as unsigned shorts
RECURSIVE PackHs(_)
PackHs(vals) == IF vals = <<>> THEN <<>> ELSE PackH(Head(vals)) \o PackHs(Tail(vals))

\* the bytes of a status message: the groups it carries, in the order
\* base, weight and race, cap and followers, resistances, increments
StatusBarBody(m) ==
    PackI(1) \o [i \in 1..NameLen |-> 65] \o PackH(50) \o PackH(60)
    \o <<0, m.flag>>
    \o (IF m.base = <<>> THEN <<>>
        ELSE <<m.base[1]>> \o PackHs(Tail(m.base)))
    \o (IF m.weightRace = <<>> THEN <<>>
        ELSE PackH(m.weightRace[1]) \o <<m.weightRace[2]>>)
    \o (IF m.capFollowers = <<>> THEN <<>>
        ELSE PackH(m.capFollowers[1]) \o <<m.capFollowers[2], m.capFollowers[3]>>)
    \o PackHs(m.resistances)
    \o PackHs(m.increments)

StatusBarBytes(m) == Framed(STATUS_BAR_INFO, StatusBarBody(m))

\* Ph.HANDLERS[cmd](buf) for the commands decoded here
Decode(raw) ==
    CASE raw[1] = OBJECT_INFO -> ObjectInfoPacket(raw)
      [] raw[1] = DRAW_OBJECT -> DrawObjectPacket(raw)
      [] raw[1] = STATUS_BAR_INFO -> StatusBarInfoPacket(raw)
      [] OTHER -> [cls |-> "", exc |-> "KeyError"]

DecodeInputs ==
    {ObjectInfoBytes(m) : m \in ObjectInfoMsgs}
    \cup {DrawObjectBytes(m) : m \in DrawObjectMsgs}
    \cup {StatusBarBytes(m) : m \in StatusMsgs}

\* the session is as it is when play receives
DecodeInit ==
    /\ InGame
    /\ QueueIdle
    /\ RecvIdle
    /\ phIn = <<>>
    /\ phOut = NoPacket
    /\ nMsgs = 0
    /\ arg \in DecodeInputs
    /\ res = NoResult

\* pkt = Ph.process(raw)
DecodeCall ==
    /\ res = NoResult
    /\ res' = Decode(arg)
    /\ UNCHANGED <<phIn, phOut, arg, nMsgs>>
    /\ UNCHANGED <<clientVars, worldVars, brainVars, queueVars, recvVars>>

DecodeNext == DecodeCall

SpecDecode == DecodeInit /\ [][DecodeNext]_vars

\* ------------------------------------------------------------- SpecPacketOut
\* A PacketOut and the calls made on it: arg is the packet, res what the last
\* call did. An exception leaves the call and the packet is as it was.

\* PacketOut.ulen: the index of the length is taken once; two bytes of zero
\* hold its place
PacketOutUlen(po) ==
    IF po.exc # "None" THEN po
    ELSE IF po.lenIdx # None THEN [po EXCEPT !.exc = "AssertionError"]
    ELSE PacketOutUshort([po EXCEPT !.lenIdx = Len(po.buf)], 0)

\* struct.pack('>H', len(self.buf)), laid over the two bytes at lenIdx
PatchMut(b, lenIdx) ==
    SubSeq(b, 1, lenIdx) \o PackH(Len(b) - 1) \o SubSeq(b, lenIdx + 3, Len(b))
Patch(b, lenIdx) ==
    SubSeq(b, 1, lenIdx) \o PackH(Len(b)) \o SubSeq(b, lenIdx + 3, Len(b))

\* PacketOut.getBytes: the packet after the call; its buf is what is returned
PacketOutGetBytes(po) ==
    IF po.exc # "None" \/ po.lenIdx = None THEN po
    ELSE [po EXCEPT !.buf = Patch(po.buf, po.lenIdx)]

\* the halves of a value, as PacketOutUintOf takes them
Halves(val) == <<val \div 65536, val % 65536>>

\* the packet after a call and what the call did; val is the value passed,
\* in halves
Called(op, val, po) ==
    /\ arg' = (IF po.exc # "None" THEN arg ELSE po)
    /\ res' = [op |-> op, val |-> val, exc |-> po.exc,
               bytes |-> IF op = "getBytes" THEN po.buf ELSE <<>>]

\* po = net.PacketOut(cmd)
PacketOutInit ==
    /\ InGame
    /\ QueueIdle
    /\ RecvIdle
    /\ phIn = <<>>
    /\ phOut = NoPacket
    /\ nMsgs = 0
    /\ arg \in {PacketOut(cmd) : cmd \in {CLIENT_VERSION, GENERAL_INFO}}
    /\ res = [op |-> "PacketOut", val |-> Halves(arg.buf[1]), exc |-> "None",
              bytes |-> <<>>]

PoUnchanged ==
    /\ UNCHANGED <<phIn, phOut, nMsgs>>
    /\ UNCHANGED <<clientVars, worldVars, brainVars, queueVars, recvVars>>

\* po.uchar(val), also with values that are no byte
PoUchar ==
    /\ Len(arg.buf) < MaxOut
    /\ \E val \in {-1, 0, 255, 256} :
          Called("uchar", Halves(val), PacketOutUchar(arg, val))
    /\ PoUnchanged

\* po.ushort(val), also with values that are no unsigned short
PoUshort ==
    /\ Len(arg.buf) + 2 <= MaxOut
    /\ \E val \in {-1, 515, 65535, 65536} :
          Called("ushort", Halves(val), PacketOutUshort(arg, val))
    /\ PoUnchanged

\* po.uint(val): -1, 0x1f, 0xffffffff, 0x100000000
PoUint ==
    /\ Len(arg.buf) + 4 <= MaxOut
    /\ \E val \in {<<-1, 65535>>, <<0, 31>>, <<65535, 65535>>, <<65536, 0>>} :
          Called("uint", val, PacketOutUintOf(arg, val[1], val[2]))
    /\ PoUnchanged

\* po.ulen()
PoUlen ==
    /\ Len(arg.buf) + 2 <= MaxOut
    /\ Called("ulen", Halves(0), PacketOutUlen(arg))
    /\ PoUnchanged

\* po.getBytes()
PoGetBytes ==
    /\ Called("getBytes", Halves(0), PacketOutGetBytes(arg))
    /\ PoUnchanged

PacketOutNext == PoUchar \/ PoUshort \/ PoUint \/ PoUlen \/ PoGetBytes

SpecPacketOut == PacketOutInit /\ [][PacketOutNext]_vars

\* ------------------------------------------------------------- SpecRoundTrip
\* The messages of fixed layout the client sends, built as the client builds
\* them and handed to Ph.process. arg is the message, res the bytes sent and
\* what Ph.process makes of them.

\* Util.fixStr(string, length): the characters, then zeros up to length
FixStr(string, length) ==
    [i \in 1..length |-> IF i <= Len(string) THEN string[i] ELSE 0]

\* PacketOut.string(val, length)
PacketOutString(po, val, length) ==
    PacketOutWrite(po, Len(val) <= length, FixStr(val, length))

\* PacketOut.ip('127.0.0.1')
PacketOutIp(po) == PacketOutWrite(po, TRUE, <<127, 0, 0, 1>>)

\* the command ids of the messages sent
LOGIN_REQUEST == 128
GAME_SERVER_LOGIN == 145
LOGIN_CHARACTER == 93
REQUEST_STATUS == 52
SINGLE_CLICK == 9
DOUBLE_CLICK == 6

\* the bytes of a name or password
StrLen == 30

\* Client.connect: the account login request
LoginRequest(user, pass) ==
    PacketOutUchar(
        PacketOutString(PacketOutString(PacketOut(LOGIN_REQUEST), user, StrLen),
                        pass, StrLen), 0)

\* Client.selectServer: the login at the game server
GameServerLogin(key, user, pass) ==
    PacketOutString(
        PacketOutString(PacketOutUint(PacketOut(GAME_SERVER_LOGIN), key), user, StrLen),
        pass, StrLen)

\* Client.selectCharacter; 0xedededed is given in halves
LoginCharacter(name, idx) ==
    LET p1 == PacketOutUintOf(PacketOut(LOGIN_CHARACTER), 60909, 60909)
        p2 == PacketOutUshort(PacketOutString(p1, name, StrLen), 0)
        p3 == PacketOutUint(PacketOutUint(PacketOutUint(p2, 0), 0), 29)
        p4 == PacketOutUint(PacketOutUint(PacketOutUint(PacketOutUint(p3, 0), 0), 0), 0)
    IN PacketOutIp(PacketOutUint(p4, idx))

\* Client.requestStatus
RequestStatus(serial) ==
    PacketOutUint(
        PacketOutUchar(PacketOutUintOf(PacketOut(REQUEST_STATUS), 60909, 60909), 4),
        serial)

\* Client.singleClick, Client.doubleClick
SingleClick(serial) == PacketOutUint(PacketOut(SINGLE_CLICK), serial)
DoubleClick(serial) == PacketOutUint(PacketOut(DOUBLE_CLICK), serial)

\* Client.play: the keep-alive
PingOut == PacketOutUchar(PacketOut(PING), 0)

\* names and passwords: "a", "ab", "b"
Strs == {<<97>>, <<97, 98>>, <<98>>}

\* the messages sent
OutMsgs ==
    [type : {"LoginRequest"}, user : Strs, pass : Strs]
    \cup [type : {"GameServerLogin"}, key : {1, 258}, user : Strs, pass : Strs]
    \cup [type : {"LoginCharacter"}, name : Strs, idx : {0, 1}]
    \cup [type : {"RequestStatus", "SingleClick", "DoubleClick"}, serial : Serials]
    \cup [type : {"Ping"}]
    \cup [type : {"Target"}, tgt : {NewTarget(c) : c \in TargetCursors}, serial : Serials]

\* the message as the client builds it: the exception raised, if any, and
\* the bytes handed to send
Encode(m) ==
    LET built(po) == [exc |-> po.exc, sent |-> IF po.exc = "None" THEN po.buf ELSE <<>>]
    IN CASE m.type = "LoginRequest" -> built(LoginRequest(m.user, m.pass))
         [] m.type = "GameServerLogin" -> built(GameServerLogin(m.key, m.user, m.pass))
         [] m.type = "LoginCharacter" -> built(LoginCharacter(m.name, m.idx))
         [] m.type = "RequestStatus" -> built(RequestStatus(m.serial))
         [] m.type = "SingleClick" -> built(SingleClick(m.serial))
         [] m.type = "DoubleClick" -> built(DoubleClick(m.serial))
         [] m.type = "Ping" -> built(PingOut)
         [] m.type = "Target" ->
              LET r == TargetTarget(m.tgt, [serial |-> m.serial])
              IN [exc |-> r.exc, sent |-> r.sent]

RoundTripInit ==
    /\ InGame
    /\ QueueIdle
    /\ RecvIdle
    /\ phIn = <<>>
    /\ phOut = NoPacket
    /\ nMsgs = 0
    /\ arg \in OutMsgs
    /\ res = NoResult

\* the message is built; Ph.process is called on the bytes, if there are any
RoundTripCall ==
    /\ res = NoResult
    /\ LET e == Encode(arg)
       IN res' = [exc |-> e.exc, sent |-> e.sent,
                  pkt |-> IF e.exc = "None" THEN PhProcess(e.sent) ELSE NoPacket]
    /\ UNCHANGED <<phIn, phOut, arg, nMsgs>>
    /\ UNCHANGED <<clientVars, worldVars, brainVars, queueVars, recvVars>>

RoundTripNext == RoundTripCall

SpecRoundTrip == RoundTripInit /\ [][RoundTripNext]_vars

\* ---------------------------------------------------------------- SpecCursor
\* The reads of a Packet on its buffer: phIn is the buffer the Packet was made
\* on, arg the Packet, res what the last read did. A read that raises leaves
\* the decoder; the Packet keeps the fields it has.

\* Packet(buf), before any read
CursorInit ==
    /\ InGame
    /\ QueueIdle
    /\ RecvIdle
    /\ \E n \in 0..MaxBuf : phIn \in [1..n -> {1, 2}]
    /\ phOut = NoPacket
    /\ nMsgs = 0
    /\ arg = NewPacket(phIn)
    /\ res = [op |-> "Packet", num |-> 0, exc |-> "None", ret |-> <<>>]

\* self.pb(num), also for more bytes than any buffer holds
CursorPb ==
    /\ \E num \in 0..(MaxBuf + 1) :
          LET q == Pb(arg, num)
          IN /\ arg' = [q EXCEPT !.exc = "None"]
             /\ res' = [op |-> "pb", num |-> num, exc |-> q.exc, ret |-> q.ret]
    /\ UNCHANGED <<phIn, phOut, nMsgs>>
    /\ UNCHANGED <<clientVars, worldVars, brainVars, queueVars, recvVars>>

CursorNext == CursorPb

SpecCursor == CursorInit /\ [][CursorNext]_vars

\* ----------------------------------------------------------------- SpecOrder
\* The class statements of a module of packets run in the order of the file;
\* on the packets module, once imported, testPacketsOrder walks the classes.
\* arg is the module and the number of its class statements that have run,
\* res the place of the test.

\* the packet classes of net.py in the order of the file, each with its cmd
\* (None for a class without one) and whether its name ends in "Packet"
NetClasses ==
    << [name |-> "Packet", cmd |-> None, endsPacket |-> TRUE],
       [name |-> "ServerListPacket", cmd |-> 168, endsPacket |-> TRUE],
       [name |-> "EnableFeaturesPacket", cmd |-> 185, endsPacket |-> TRUE],
       [name |-> "ConnectToGameServerPacket", cmd |-> 140, endsPacket |-> TRUE],
       [name |-> "PingPacket", cmd |-> 115, endsPacket |-> TRUE],
       [name |-> "CharactersPacket", cmd |-> 169, endsPacket |-> TRUE],
       [name |-> "CharLocaleBodyPacket", cmd |-> 27, endsPacket |-> TRUE],
       [name |-> "GeneralInfoPacket", cmd |-> 191, endsPacket |-> TRUE],
       [name |-> "Unk32Packet", cmd |-> 50, endsPacket |-> TRUE],
       [name |-> "ControlAnimationPacket", cmd |-> 30, endsPacket |-> TRUE],
       [name |-> "CharacterAnimationPacket", cmd |-> 110, endsPacket |-> TRUE],
       [name |-> "GraphicalEffectPacket", cmd |-> 112, endsPacket |-> TRUE],
       [name |-> "DrawGamePlayerPacket", cmd |-> 32, endsPacket |-> TRUE],
       [name |-> "OverallLightLevelPacket", cmd |-> 79, endsPacket |-> TRUE],
       [name |-> "SendSpeechPacket", cmd |-> 28, endsPacket |-> TRUE],
       [name |-> "UnicodeSpeech", cmd |-> 174, endsPacket |-> FALSE],
       [name |-> "PlayMidiPacket", cmd |-> 109, endsPacket |-> TRUE],
       [name |-> "WarModePacket", cmd |-> 114, endsPacket |-> TRUE],
       [name |-> "LoginCompletePacket", cmd |-> 85, endsPacket |-> TRUE],
       [name |-> "SetWeatherPacket", cmd |-> 101, endsPacket |-> TRUE],
       [name |-> "DrawObjectPacket", cmd |-> 120, endsPacket |-> TRUE],
       [name |-> "UpdatePlayerPacket", cmd |-> 119, endsPacket |-> TRUE],
       [name |-> "ObjectInfoPacket", cmd |-> 26, endsPacket |-> TRUE],
       [name |-> "AddItemToContainerPacket", cmd |-> 37, endsPacket |-> TRUE],
       [name |-> "AddItemsToContainerPacket", cmd |-> 60, endsPacket |-> TRUE],
       [name |-> "DeleteObjectPacket", cmd |-> 29, endsPacket |-> TRUE],
       [name |-> "DrawContainerPacket", cmd |-> 36, endsPacket |-> TRUE],
       [name |-> "AllowAtackPacket", cmd |-> 170, endsPacket |-> TRUE],
       [name |-> "TipWindowPacket", cmd |-> 166, endsPacket |-> TRUE],
       [name |-> "PlaySoundPacket", cmd |-> 84, endsPacket |-> TRUE],
       [name |-> "LoginDeniedPacket", cmd |-> 130, endsPacket |-> TRUE],
       [name |-> "UpdateVitalPacket", cmd |-> None, endsPacket |-> TRUE],
       [name |-> "UpdateHealthPacket", cmd |-> 161, endsPacket |-> TRUE],
       [name |-> "UpdateManaPacket", cmd |-> 162, endsPacket |-> TRUE],
       [name |-> "UpdateStaminaPacket", cmd |-> 163, endsPacket |-> TRUE],
       [name |-> "StatusBarInfoPacket", cmd |-> 17, endsPacket |-> TRUE],
       [name |-> "SendSkillsPacket", cmd |-> 58, endsPacket |-> TRUE],
       [name |-> "SeasonInfoPacket", cmd |-> 188, endsPacket |-> TRUE],
       [name |-> "SendGumpDialogPacket", cmd |-> 176, endsPacket |-> TRUE] >>

\* the classes of packets.py, likewise
PacketsClassesMut == NetClasses
PacketsClasses ==
    << [name |-> "Packet", cmd |-> None, endsPacket |-> TRUE],
       [name |-> "UpdateVitalPacket", cmd |-> None, endsPacket |-> TRUE],
       [name |-> "StatusBarInfoPacket", cmd |-> 17, endsPacket |-> TRUE],
       [name |-> "ObjectInfoPacket", cmd |-> 26, endsPacket |-> TRUE],
       [name |-> "CharLocaleBodyPacket", cmd |-> 27, endsPacket |-> TRUE],
       [name |-> "SendSpeechPacket", cmd |-> 28, endsPacket |-> TRUE],
       [name |-> "DeleteObjectPacket", cmd |-> 29, endsPacket |-> TRUE],
       [name |-> "ControlAnimationPacket", cmd |-> 30, endsPacket |-> TRUE],
       [name |-> "DrawGamePlayerPacket", cmd |-> 32, endsPacket |-> TRUE],
       [name |-> "DrawContainerPacket", cmd |-> 36, endsPacket |-> TRUE],
       [name |-> "AddItemToContainerPacket", cmd |-> 37, endsPacket |-> TRUE],
       [name |-> "MobAttributesPacket", cmd |-> 45, endsPacket |-> TRUE],
       [name |-> "Unk32Packet", cmd |-> 50, endsPacket |-> TRUE],
       [name |-> "SendSkillsPacket", cmd |-> 58, endsPacket |-> TRUE],
       [name |-> "AddItemsToContainerPacket", cmd |-> 60, endsPacket |-> TRUE],
       [name |-> "OverallLightLevelPacket", cmd |-> 79, endsPacket |-> TRUE],
       [name |-> "PlaySoundPacket", cmd |-> 84, endsPacket |-> TRUE],
       [name |-> "LoginCompletePacket", cmd |-> 85, endsPacket |-> TRUE],
       [name |-> "SetWeatherPacket", cmd |-> 101, endsPacket |-> TRUE],
       [name |-> "TargetCursorPacket", cmd |-> 108, endsPacket |-> TRUE],
       [name |-> "PlayMidiPacket", cmd |-> 109, endsPacket |-> TRUE],
       [name |-> "CharacterAnimationPacket", cmd |-> 110, endsPacket |-> TRUE],
       [name |-> "GraphicalEffectPacket", cmd |-> 112, endsPacket |-> TRUE],
       [name |-> "WarModePacket", cmd |-> 114, endsPacket |-> TRUE],
       [name |-> "PingPacket", cmd |-> 115, endsPacket |-> TRUE],
       [name |-> "UpdatePlayerPacket", cmd |-> 119, endsPacket |-> TRUE],
       [name |-> "DrawObjectPacket", cmd |-> 120, endsPacket |-> TRUE],
       [name |-> "LoginDeniedPacket", cmd |-> 130, endsPacket |-> TRUE],
       [name |-> "ConnectToGameServerPacket", cmd |-> 140, endsPacket |-> TRUE],
       [name |-> "UpdateHealthPacket", cmd |-> 161, endsPacket |-> TRUE],
       [name |-> "UpdateManaPacket", cmd |-> 162, endsPacket |-> TRUE],
       [name |-> "UpdateStaminaPacket", cmd |-> 163, endsPacket |-> TRUE],
       [name |-> "TipWindowPacket", cmd |-> 166, endsPacket |-> TRUE],
       [name |-> "ServerListPacket", cmd |-> 168, endsPacket |-> TRUE],
       [name |-> "CharactersPacket", cmd |-> 169, endsPacket |-> TRUE],
       [name |-> "AllowAttackPacket", cmd |-> 170, endsPacket |-> TRUE],
       [name |-> "UnicodeSpeech", cmd |-> 174, endsPacket |-> FALSE],
       [name |-> "SendGumpDialogPacket", cmd |-> 176, endsPacket |-> TRUE],
       [name |-> "EnableFeaturesPacket", cmd |-> 185, endsPacket |-> TRUE],
       [name |-> "SeasonInfoPacket", cmd |-> 188, endsPacket |-> TRUE],
       [name |-> "GeneralInfoPacket", cmd |-> 191, endsPacket |-> TRUE],
       [name |-> "ClilocMsgPacket", cmd |-> 193, endsPacket |-> TRUE],
       [name |-> "MegaClilocRevPacket", cmd |-> 220, endsPacket |-> TRUE],
       [name |-> "CompressedGumpPacket", cmd |-> 221, endsPacket |-> TRUE] >>

ModuleClasses(module) == IF module = "packets" THEN PacketsClasses ELSE NetClasses

\* packets.classes, the concrete classes: those that carry a cmd
IsConcrete(c) == c.cmd # None

\* the test before its loop
TestStart == [i |-> 0, base |-> TRUE, lastId |-> None, exc |-> "None"]

\* import of the module begins
OrderInit ==
    /\ InGame
    /\ QueueIdle
    /\ RecvIdle
    /\ phIn = <<>>
    /\ phOut = NoPacket
    /\ nMsgs = 0
    /\ arg \in [module : {"packets", "net"}, n : {0}]
    /\ res = NoResult

OrderUnchanged ==
    /\ UNCHANGED <<phIn, phOut, nMsgs>>
    /\ UNCHANGED <<clientVars, worldVars, brainVars, queueVars, recvVars>>

\* the next class statement of the module runs
DefineClass ==
    /\ arg.n < Len(ModuleClasses(arg.module))
    /\ arg' = [arg EXCEPT !.n = @ + 1]
    /\ UNCHANGED res
    /\ OrderUnchanged

\* testPacketsOrder is called
TestEnter ==
    /\ arg.module = "packets"
    /\ arg.n = Len(PacketsClasses)
    /\ res = NoResult
    /\ res' = TestStart
    /\ UNCHANGED arg
    /\ OrderUnchanged

\* one iteration of the loop over classNames
TestClass ==
    /\ res # NoResult
    /\ res.exc = "None"
    /\ res.i < Len(PacketsClasses)
    /\ LET c == PacketsClasses[res.i + 1]
           r == [res EXCEPT !.i = @ + 1]
       IN res' = IF ~IsConcrete(c)
                 THEN (IF res.base THEN r ELSE [r EXCEPT !.exc = "AssertionError: base"])
                 ELSE IF res.lastId # None /\ ~(res.lastId < c.cmd)
                 THEN [r EXCEPT !.base = FALSE, !.exc = "AssertionError: order"]
                 ELSE IF ~c.endsPacket
                 THEN [r EXCEPT !.base = FALSE, !.exc = "AssertionError: name"]
                 ELSE [r EXCEPT !.base = FALSE, !.lastId = c.cmd]
    /\ UNCHANGED arg
    /\ OrderUnchanged

OrderNext == DefineClass \/ TestEnter \/ TestClass

SpecOrder == OrderInit /\ [][OrderNext]_vars

\* ------------------------------------------------------------------
\* SpecBootstrap: the branches of play that build the player and the realm,
\* with every field the bootstrap sets; arg is the client, res the last
\* message and how its branch ended

\* Client.__init__: no login completion, no player, no realm, no objects
NewClient ==
    [lc |-> FALSE, player |-> Absent, width |-> None, height |-> None,
     objects |-> <<>>]

\* Player(client): every attribute the bootstrap sets starts as None
BlankPlayer ==
    [serial |-> Absent, graphic |-> Absent, x |-> Absent, y |-> Absent,
     z |-> Absent, facing |-> Absent]

RealmWidthMut(pkt) == pkt.widthM8

\* self.width = pkt.widthM8 + 8
RealmWidth(pkt) == pkt.widthM8 + 8

Branch(c, exc) == [c |-> c, exc |-> exc]

\* the CharLocaleBodyPacket branch, assertion by assertion: a failed
\* assertion keeps what the branch assigned before it
BootstrapBranch(c, pkt) ==
    IF c.lc \/ c.player # Absent THEN Branch(c, "AssertionError")
    ELSE LET pl == [BlankPlayer EXCEPT !.serial = Some(pkt.serial),
                                       !.graphic = Some(pkt.bodyType),
                                       !.x = Some(pkt.x),
                                       !.y = Some(pkt.y),
                                       !.z = Some(pkt.z),
                                       !.facing = Some(pkt.facing)]
             c1 == [c EXCEPT !.player = Some(pl)]
             c2 == [c1 EXCEPT !.width = RealmWidth(pkt)]
             c3 == [c2 EXCEPT !.height = pkt.height]
         IN IF c.width # None THEN Branch(c1, "AssertionError")
            ELSE IF c.height # None THEN Branch(c2, "AssertionError")
            ELSE IF pkt.serial \in DOMAIN c.objects
                 THEN Branch(c3, "AssertionError")
            ELSE Branch([c3 EXCEPT !.objects = @ @@ (pkt.serial :> "player")],
                        "None")

\* the LoginCompletePacket branch, as far as the client's own fields go
LoginCompleteBranch(c) ==
    IF c.lc \/ c.player = Absent THEN Branch(c, "AssertionError")
    ELSE Branch([c EXCEPT !.lc = TRUE], "None")

\* the DrawObjectPacket branch, as far as the object map goes
DrawObjectBranch(c, serial) ==
    IF ~c.lc THEN Branch(c, "AssertionError")
    ELSE IF serial \in DOMAIN c.objects THEN Branch(c, "None")
    ELSE Branch([c EXCEPT !.objects = @ @@ (serial :> "mobile")], "None")

\* the bootstrap messages of the model: two values for each field
BootPackets ==
    [serial : 1..MaxSerial, bodyType : {400}, x : {0, 1}, y : {7},
     z : {-1, 0}, facing : {3}, widthM8 : {0, 6136}, height : {4096}]

NoBootPacket == [serial |-> None]

BootstrapInit ==
    /\ InGame /\ QueueIdle /\ RecvIdle
    /\ phIn = <<>> /\ phOut = NoPacket /\ nMsgs = 0
    /\ arg = NewClient
    /\ res = [op |-> "Client", pkt |-> NoBootPacket, exc |-> "None"]

Handled(op, pkt, b) ==
    /\ arg' = b.c
    /\ res' = [op |-> op, pkt |-> pkt, exc |-> b.exc]
    /\ UNCHANGED <<phIn, phOut, nMsgs>>
    /\ UNCHANGED <<clientVars, worldVars, brainVars, queueVars, recvVars>>

BootCharLocaleBody ==
    \E pkt \in BootPackets :
        Handled("CharLocaleBody", pkt, BootstrapBranch(arg, pkt))

BootLoginComplete ==
    Handled("LoginComplete", NoBootPacket, LoginCompleteBranch(arg))

BootDrawObject ==
    \E s \in 1..MaxSerial :
        Handled("DrawObject", [serial |-> s], DrawObjectBranch(arg, s))

BootstrapNext == BootCharLocaleBody \/ BootLoginComplete \/ BootDrawObject

SpecBootstrap == BootstrapInit /\ [][BootstrapNext]_vars

\* ------------------------------------------------------------------
\* SpecRun: the loop of Brain.run beside a client that injects events; arg is
\* the Brain thread (place in run, events the drain of this iteration took,
\* Brain.timeout, whether the main thread lives), res the last result of loop()

\* Brain.timeout: the default, or what setTimeout was given
Timeouts == {0, 5}

RunEvents ==
    {[type |-> t, old |-> 1, new |-> 2] : t \in {EVT_HP_CHANGED, EVT_MANA_CHANGED}}

RunInit ==
    /\ InGame /\ QueueIdle /\ RecvIdle
    /\ phIn = <<>> /\ phOut = NoPacket /\ nMsgs = 0
    /\ arg \in [pc : {"top"}, drained : {0}, timeout : Timeouts, main : {TRUE}]
    /\ res = [op |-> "init", ret |-> FALSE]

RunUnchanged ==
    /\ UNCHANGED <<phIn, phOut, nMsgs, started>>
    /\ UNCHANGED <<clientVars, worldVars, queueVars, recvVars>>

\* if not main.is_alive(): break
RunTop ==
    /\ alive /\ arg.pc = "top"
    /\ arg' = [arg EXCEPT !.pc = IF arg.main THEN "loop" ELSE "done"]
    /\ alive' = arg.main
    /\ UNCHANGED <<res, events, nPushed, lastDispatch>>
    /\ RunUnchanged

\* if self.loop(): break; loop() is the script's and returns what it likes
RunLoop ==
    /\ alive /\ arg.pc = "loop"
    /\ \E r \in BOOLEAN :
         /\ arg' = [arg EXCEPT !.pc = IF r THEN "done" ELSE "drain", !.drained = 0]
         /\ res' = [op |-> "loop", ret |-> r]
         /\ alive' = ~r
    /\ UNCHANGED <<events, nPushed, lastDispatch>>
    /\ RunUnchanged

\* one round of the loop of processEvents, called from place at: the return on
\* an empty queue leads to place to, an event is taken and dispatched
ProcessOne(at, to) ==
    /\ IF events = <<>>
       THEN /\ arg' = [arg EXCEPT !.pc = to]
            /\ UNCHANGED <<events, lastDispatch, alive>>
       ELSE LET ev == events[PopIndex(events)]
                raised == Handler(ev) = "NotImplementedError"
            IN /\ events' = RemoveAt(events, PopIndex(events))
               /\ lastDispatch' = Dispatched(ev)
               /\ alive' = ~raised
               /\ arg' = [arg EXCEPT !.drained = @ + 1,
                                     !.pc = IF raised THEN "done" ELSE at]
    /\ UNCHANGED <<res, nPushed>>
    /\ RunUnchanged

\* self.processEvents() after loop()
RunDrain ==
    /\ alive /\ arg.pc = "drain"
    /\ ProcessOne("drain", "test")

\* if not len(self.events) and self.timeout
RunTest ==
    /\ alive /\ arg.pc = "test"
    /\ arg' = [arg EXCEPT !.pc = IF events = <<>> /\ arg.timeout # 0
                                 THEN "wait" ELSE "top"]
    /\ UNCHANGED <<res, events, nPushed, lastDispatch, alive>>
    /\ RunUnchanged

\* while time.time() < timeout: self.processEvents(); time.sleep(0.01)
RunWait ==
    /\ alive /\ arg.pc = "wait"
    /\ ProcessOne("wait", "wait")

\* the timeout has passed
RunWaitEnd ==
    /\ alive /\ arg.pc = "wait"
    /\ arg' = [arg EXCEPT !.pc = "top"]
    /\ UNCHANGED <<res, events, nPushed, lastDispatch, alive>>
    /\ RunUnchanged

\* Brain.event, called by the client while the Brain runs
RunEvent ==
    /\ nPushed < MaxPush
    /\ \E ev \in RunEvents : events' = Push(events, <<ev>>)
    /\ nPushed' = nPushed + 1
    /\ UNCHANGED <<arg, res, lastDispatch, alive>>
    /\ RunUnchanged

\* the main thread ends
RunMainEnds ==
    /\ arg.main
    /\ arg' = [arg EXCEPT !.main = FALSE]
    /\ UNCHANGED <<res, events, nPushed, lastDispatch, alive>>
    /\ RunUnchanged

RunNext ==
    \/ RunTop \/ RunLoop \/ RunDrain \/ RunTest \/ RunWait \/ RunWaitEnd
    \/ RunEvent \/ RunMainEnds

SpecRun == RunInit /\ [][RunNext]_vars

\* ------------------------------------------------------------------
\* SpecScript: the play loop beside a script that the Brain thread runs and
\* that calls the client, as MyBrain of spar.py does

\* @logincomplete
LoginCompleted == lc /\ status = "game"

\* a call of the client made from the Brain thread: op with what it did
ScriptCall(op, exc, io, ret) ==
    /\ last' = Outcome(op, exc, io, ret, <<>>)
    /\ tick' = 1 - tick
    /\ UNCHANGED <<status, lc, pingDue, net, features, pc>>
    /\ UNCHANGED worldVars
    /\ UNCHANGED brainVars
    /\ UNCHANGED <<queueVars, recvVars, phVars, nMsgs>>

\* self.client.say(text) in init() or loop() of the script
ScriptSay ==
    /\ started /\ alive
    /\ IF ~LoginCompleted
       THEN ScriptCall("say", "StatusError", <<>>, <<>>)
       ELSE ScriptCall("say", "None", << <<"send", "UnicodeSpeechRequest">> >>, <<>>)

\* self.client.singleClick(obj) or doubleClick(obj) with an object the script
\* knows; Item.use and Player.openBackPack call doubleClick
ScriptClick ==
    /\ started /\ alive
    /\ \E s \in DOMAIN objects, op \in {"SingleClick", "DoubleClick"} :
         LET po == IF op = "SingleClick" THEN SingleClick(s) ELSE DoubleClick(s)
         IN IF ~LoginCompleted
            THEN ScriptCall(op, "StatusError", <<>>, <<>>)
            ELSE ScriptCall(op, po.exc, << <<"send", op>> >>, po.buf)

ScriptNext ==
    \/ TargetStep
    \/ TargetReply
    \/ ScriptSay
    \/ ScriptClick

SpecScript == TargetInit /\ [][ScriptNext]_vars

\* ------------------------------------------------------------------
\* SpecPing: the keep-alive of the play loop against a clock in seconds; arg
\* is the client and the clock (Client.lc, Client.ping, time.time()), res
\* what the last step did and when play started or the last ping was sent

\* the clock of the model stops here
MaxNow == 64

\* Client.PING_INTERVAL
PING_INTERVAL == 30

NextPingMut(t) == t

\* time.time() + self.PING_INTERVAL
NextPing(t) == t + PING_INTERVAL

\* if self.lc and self.ping < time.time()
PingNeeded(c) == c.lc /\ c.ping < c.now

PingInit ==
    /\ InGame /\ QueueIdle /\ RecvIdle
    /\ phIn = <<>> /\ phOut = NoPacket /\ nMsgs = 0
    /\ arg = [pc |-> "idle", lc |-> FALSE, ping |-> 0, now |-> 1]
    /\ res = [op |-> "Client", io |-> <<>>, mark |-> None]

PingUnchanged ==
    /\ UNCHANGED <<phIn, phOut, nMsgs>>
    /\ UNCHANGED <<clientVars, worldVars, brainVars, queueVars, recvVars>>

\* Client.play up to its loop: self.ping = time.time() + self.PING_INTERVAL
PingPlayEnter ==
    /\ arg.pc = "idle"
    /\ arg' = [arg EXCEPT !.pc = "play", !.ping = NextPing(arg.now)]
    /\ res' = [op |-> "play", io |-> <<>>, mark |-> arg.now]
    /\ PingUnchanged

\* one iteration of the loop with the Brain alive: the message received, the
\* ping if needed, the branch of the message; the clock may move between the
\* test and the second time.time()
PingIter ==
    /\ arg.pc = "play"
    /\ \E m \in {"Ping", "LoginComplete", "LoginDenied"},
          t \in {arg.now, arg.now + 1} :
         LET sendPing == PingNeeded(arg)
             failed == \/ m = "LoginDenied"
                       \/ m = "LoginComplete" /\ arg.lc
         IN /\ t <= MaxNow
            /\ sendPing \/ t = arg.now
            /\ arg' = [pc |-> IF failed THEN "idle" ELSE "play",
                       lc |-> (arg.lc \/ m = "LoginComplete"),
                       ping |-> IF sendPing THEN NextPing(t) ELSE arg.ping,
                       now |-> t]
            /\ res' = [op |-> "iter",
                       io |-> << <<"recv", m>> >>
                              \o (IF sendPing THEN << <<"send", "Ping">> >> ELSE <<>>),
                       mark |-> IF sendPing THEN t ELSE res.mark]
    /\ PingUnchanged

\* a second passes
PingClock ==
    /\ arg.now < MaxNow
    /\ arg' = [arg EXCEPT !.now = @ + 1]
    /\ UNCHANGED res
    /\ PingUnchanged

PingNext == PingPlayEnter \/ PingIter \/ PingClock

SpecPing == PingInit /\ [][PingNext]_vars

\* ------------------------------------------------------------------ claims
\* the step is a call of connect, selectServer, selectCharacter or play
CallStep == tick' # tick /\ pc = "idle"

\* the status each method requires
Required(op) ==
    CASE op = "connect" -> "disconnected" [] op = "selectServer" -> "connected"
      [] op = "selectCharacter" -> "loggedin" [] op = "play" -> "game"

\* C1: a call of connect, selectServer, selectCharacter or play made while
\* the status is not the one the method requires raises StatusError, sends and
\* receives nothing, and leaves status, lc, the transport, the world model and
\* the event queue as they were.
C1_RefusedCallChangesNothing ==
    [][ (CallStep /\ status # Required(last'.op))
          => /\ last'.exc = "StatusError"
             /\ last'.io = <<>>
             /\ pc' = "idle"
             /\ UNCHANGED <<status, lc, net, features, player, objects, heap, events>> ]_vars

C1_Witness ==
    /\ last.op = "connect" /\ last.exc = "StatusError"
    /\ status = "game" /\ player # NoOid /\ net.ep = "game"

\* C2: the status only moves forward, one step at a time, along
\* disconnected -> connected -> loggedin -> game.
C2_StatusMovesForward ==
    [][ \/ status' = status
        \/ <<status, status'>> \in { <<"disconnected", "connected">>,
                                     <<"connected", "loggedin">>,
                                     <<"loggedin", "game">> } ]_vars

\* play has ended by its break and the status is still game
C2_Witness ==
    /\ status = "game" /\ pc = "idle"
    /\ last.op = "play" /\ last.ret = <<"break">>

\* C3: connect sends the identification bytes, then the login request, and
\* only then receives; the status is connected exactly when the packet received
\* is the server list, whose entries connect then returns; any other outcome of
\* the receive raises and leaves the status disconnected.
C3_ConnectHandshake ==
    (last.op = "connect" /\ last.exc # "StatusError" /\ last.io # <<>>)
      => /\ Len(last.io) = 3
         /\ last.io[1] = <<"send", "ident">>
         /\ last.io[2] = <<"send", "LoginRequest">>
         /\ last.io[3][1] = "recv"
         /\ Len(last.rx) = 1
         /\ (status = "connected") <=> (last.rx[1].kind = "ServerList")
         /\ last.rx[1].kind = "ServerList"
              => last.exc = "None" /\ last.ret = <<last.rx[1].servers>>
         /\ last.rx[1].kind # "ServerList"
              => last.exc # "None" /\ last.ret = <<>> /\ status = "disconnected"

C3_Witness ==
    /\ last.op = "connect" /\ status = "connected"
    /\ last.rx = <<[kind |-> "ServerList", servers |-> <<0>>]>>
    /\ last.ret = << <<0>> >>

\* the order of the steps of selectServer the claim states; a receive and a
\* close are named without their argument
C4Order ==
    << "send SelectServer", "recv", "close", "open game", "send key",
       "send GameServerLogin", "compress on", "recv", "recv" >>

StepName(e) == IF e[1] \in {"recv", "close"} THEN e[1] ELSE e[1] \o " " \o e[2]

C4Expected == <<"ConnectToGameServer", "EnableFeatures", "Characters">>

\* C4: selectServer performs send index, receive redirect, close, open game
\* socket, send key, send game login, compression on, receive features, receive
\* characters in this order; the status is loggedin only when all nine were
\* done, and a packet of another kind at a receive raises
\* UnexpectedPacketError with the status still connected.
C4_SelectServerOrder ==
    (last.op = "selectServer" /\ last.exc # "StatusError")
      => /\ Len(last.io) <= Len(C4Order)
         /\ \A i \in 1..Len(last.io) : StepName(last.io[i]) = C4Order[i]
         /\ (status = "loggedin") <=> (Len(last.io) = Len(C4Order) /\ last.exc = "None")
         /\ status \in {"connected", "loggedin"}
         /\ Len(last.io) >= 7 => (net.ep = "game" /\ net.open /\ net.compress)
         /\ \A i \in 1..Len(last.rx) :
              LET m == last.rx[i] IN
              /\ i < Len(last.rx) => m.kind = C4Expected[i]
              /\ (m # NetError /\ m.kind # C4Expected[i])
                   => last.exc = "UnexpectedPacketError" /\ status = "connected"
              /\ m = NetError => last.exc = "RuntimeError" /\ status = "connected"
         /\ last.exc = "None"
              => /\ Len(last.rx) = 3 /\ last.rx[3].kind = "Characters"
                 /\ last.ret = <<last.rx[3].chars>>
                 /\ features = last.rx[2].features

C4_Witness ==
    /\ last.op = "selectServer" /\ status = "loggedin"
    /\ Len(last.io) = 9 /\ net.compress

\* the handler of each kind of event
HandlerOfKind(type) ==
    CASE type = EVT_HP_CHANGED -> "onHpChange" [] type = EVT_MANA_CHANGED -> "onManaChange"
      [] type = EVT_STAM_CHANGED -> "onStamChange"

\* C6: every event the session enqueued and the Brain took off the queue was
\* handed to the handler of its kind, and the Brain thread keeps running.
C6_EveryEventReachesItsHandler ==
    /\ lastDispatch # NoDispatch => lastDispatch.handler = HandlerOfKind(lastDispatch.type)
    /\ started => alive

\* the step is an iteration of the play loop that processed a vitals packet
\* for an object of the world model, after login completion
VitalStep ==
    /\ tick' # tick /\ pc = "play" /\ lc
    /\ ~(started /\ ~alive)
    /\ last'.op = "play" /\ last'.rx # <<>>
    /\ last'.rx[1].kind \in VitalKinds
    /\ last'.rx[1].serial \in DOMAIN objects

\* the object a vitals packet addresses
Addressed(m) == objects[m.serial]

\* C7: a vitals packet sets the current and the maximum of that vital on the
\* object it addresses and on no other, and enqueues one event of the matching
\* kind, from the addressed object's previous current value to the packet's.
C7_VitalsUpdateAddressedObject ==
    [][ VitalStep =>
          LET m == last'.rx[1]
              a == Addressed(m)
          IN /\ heap' = [heap EXCEPT ![a][CurField(m.kind)] = m.cur,
                                     ![a][MaxField(m.kind)] = m.max]
             /\ events' = Append(events, Event(EventType(m.kind),
                                               heap[a][CurField(m.kind)], m.cur)) ]_vars

\* C5: under every interleaving of Brain.event and Brain.processEvents the
\* events taken off the queue followed by those still in it are the events
\* pushed, in the order pushed: none is lost, duplicated or overtaken; and the
\* two threads are never inside the locked sections together.
C5_FifoNoLossNoDuplicate ==
    /\ popped \o events = pushed
    /\ ~(ppc \in {"locked", "appended"} /\ cpc \in {"check", "pop", "release"})
    /\ cev # NoEvent => cev = popped[Len(popped)]

\* two events were pushed and popped while a third push holds the lock and
\* the Brain waits for it
C5_Witness ==
    /\ Len(popped) = 2 /\ Len(pushed) = 2
    /\ ppc = "locked" /\ cpc = "acquire" /\ lock = "receive"
    /\ popped[1].new = 1 /\ popped[2].new = 2

\* the first state of SpecQueue is a state of the session
InGameReached == InGame

\* C8: every message Network.recv returns has a declared length equal to the
\* bytes its decoder consumed and to the length of the raw message; when the
\* declared length differs from the bytes consumed recv raises, returns no
\* message and leaves the buffer as it was.
C8_ReturnedMessagesAreValidated ==
    /\ rlast.exc = "None"
         => /\ rlast.declared = rlast.consumed
            /\ rlast.declared = Len(rlast.raw)
    /\ rlast.declared # rlast.consumed
         => /\ rlast.exc = "RuntimeError: Len mismatch"
            /\ buf = rlast.before
            /\ nDelivered = rlast.idx - 1

\* after one message was returned, a server list that declares 7 bytes and
\* holds 6 was refused and is still in the buffer
C8_Witness ==
    /\ rpc = "idle" /\ nDelivered = 1
    /\ rlast.exc = "RuntimeError: Len mismatch"
    /\ rlast.declared = 7 /\ rlast.consumed = 6
    /\ buf = rlast.before /\ buf # <<>>

\* C9: with compression off as well as on, and however the bytes are split
\* over the reads, a call of Network.recv that has a well-formed message next
\* in the stream returns that message and removes its bytes and no others.
C9_RecvReturnsNextCompleteMessage ==
    (rpc = "idle" /\ rlast # NoRecv /\ rlast.idx <= Len(sent) /\ sent[rlast.idx].ok)
      => /\ rlast.exc = "None"
         /\ rlast.raw = sent[rlast.idx].raw
         /\ rlast.before = Wire(sent[rlast.idx], net.compress) \o buf

\* C10: with compression on, the bytes Network.recv consumes for a message it
\* returns are the whole compressed run of the next message sent, up to and
\* with its halt codeword; when the buffer ends before the halt codeword the
\* call keeps the buffer, the next read appends to it, and the decoding that
\* follows takes the buffer from its start.
C10_NoMessageFromIncompleteRun ==
    [][ net.compress =>
          /\ (rpc = "decode" /\ rpc' = "read")
               => /\ buf' = buf
                  /\ rlast' = rlast /\ nDelivered' = nDelivered
          /\ (rpc = "read" /\ rpc' = "decode")
               => /\ buf' \o wire' = buf \o wire
                  /\ Len(buf') > Len(buf)
          /\ (rpc = "decode" /\ rpc' = "idle")
               => /\ rlast'.before = buf
                  /\ rlast'.exc = "None"
                       => /\ rlast'.idx <= Len(sent)
                          /\ SubSeq(buf, 1, rlast'.size) = sent[rlast'.idx].z
                          /\ rlast'.raw = sent[rlast'.idx].raw
                          /\ buf' = SubSeq(buf, rlast'.size + 1, Len(buf)) ]_vars

\* a server list was returned from a compressed run that came in over more
\* than one read
C10_Witness ==
    /\ net.compress /\ rpc = "idle"
    /\ rlast.exc = "None" /\ rlast.retries >= 1
    /\ rlast.raw = <<168, 0, 6, 0, 0, 0>> /\ rlast.size = 4

\* C11: a call of Network.recv that meets only bytes that complete no frame
\* gives up: it fails before it has tried again once for every byte the peer
\* delivered.
C11_RetriesAreBounded ==
    (net.compress /\ nDelivered = Len(sent)) => retries < MaxJunk

\* C12: a socket read inside Network.recv that returns no bytes, the first
\* read of the call or a read made to try again, ends the call at once with
\* the Disconnected error, without another read, the buffer and the count of
\* messages returned as they were.
C12_ZeroReadDisconnects ==
    [][ (rpc = "read" /\ wire = <<>> /\ peerClosed)
          => /\ rpc' = "idle"
             /\ rlast'.exc = "RuntimeError: Disconnected"
             /\ rlast'.before = buf
             /\ buf' = buf
             /\ nDelivered' = nDelivered ]_vars

\* the peer closed in the middle of a compressed run: the read made to try
\* again returned nothing, the bytes of the run are still in the buffer
C12_Witness ==
    /\ rpc = "idle" /\ rlast.exc = "RuntimeError: Disconnected"
    /\ rlast.retries >= 1 /\ buf # <<>> /\ buf = rlast.before

\* the places in a log of transport operations where the operation is op
Places(io, op) == {i \in 1..Len(io) : io[i][1] = op}

\* C13: a socket starts with compression off, the flag is set on at most once
\* for each socket and never set off; the messages received from the
\* authentication endpoint are decoded with the flag off, those received from
\* the game endpoint after the game-login message was sent with the flag on.
C13_CompressionOneWay ==
    [][ LET io == last'.io IN
        /\ tick' = tick => net' = net
        /\ (net.compress /\ Places(io, "open") = {}) => net'.compress
        /\ net'.ep = "auth" => ~net'.compress
        /\ Cardinality(Places(io, "compress")) <= Cardinality(Places(io, "open"))
        /\ (tick' # tick /\ last'.op = "connect" /\ Places(io, "recv") # {})
             => (net'.ep = "auth" /\ ~net'.compress)
        /\ (tick' # tick /\ last'.op = "selectServer")
             => /\ (Places(io, "recv") # {} /\ net.ep = "auth") => ~net.compress
                /\ \A i \in Places(io, "recv") :
                     (\E j \in 1..(i - 1) : io[j] = <<"send", "GameServerLogin">>)
                       => /\ \E j \in 1..(i - 1) : io[j] = <<"compress", "on">>
                          /\ net'.ep = "game" /\ net'.compress
                /\ \A i \in Places(io, "compress") :
                     \E j \in 1..(i - 1) : io[j] = <<"open", "game">>
        /\ (tick' # tick /\ last'.op = "play" /\ Places(io, "recv") # {})
             => (net.ep = "game" /\ net.compress /\ net' = net) ]_vars

\* the play loop has received a message on the game socket, compression on
C13_Witness ==
    /\ last.op = "play" /\ last.rx # <<>>
    /\ net.ep = "game" /\ net.open /\ net.compress

\* what Network.recv yields for a well-framed message the client does not
\* recognise: a registered kind without a branch in play, a general-info
\* message whose subcommand play has no branch for, an unregistered command
\* id, a general-info message whose subcommand the decoder does not know
Unrecognised == {"StatusBarInfo", "GeneralInfo", "UnknownPacket", "UnknownSubcommand"}

\* C14: an iteration of the play loop that receives a message the client
\* does not recognise skips it: no exception, the loop goes on, the session
\* and the world model are as they were.
C14_UnrecognisedIsSkipped ==
    [][ (tick' # tick /\ pc = "play" /\ ~(started /\ ~alive)
           /\ last'.io # <<>> /\ last'.io[1][1] = "recv" /\ last'.io[1][2] \in Unrecognised)
          => /\ last'.exc = "None"
             /\ pc' = "play"
             /\ UNCHANGED <<status, lc, net, features, player, objects, heap, events>> ]_vars

\* the command ids with a decoder and the class of each
Registered ==
    (LOGIN_COMPLETE :> "LoginCompletePacket") @@ (PING :> "PingPacket")
      @@ (SERVER_LIST :> "ServerListPacket") @@ (GENERAL_INFO :> "GeneralInfoPacket")

\* C15: Ph.process on a buffer whose first byte is no registered command id
\* raises the unknown-packet error with the command id, the length of the
\* buffer and the buffer, and builds no packet; on a registered id the
\* outcome is that of the class registered for it, and an exception of the
\* decoder is not the unknown-packet error.
C15_UnknownPacketOnlyForUnregistered ==
    phOut # NoPacket
      => /\ phIn[1] \notin DOMAIN Registered
              => /\ phOut.exc = "NotImplementedError: Unknown packet"
                 /\ phOut.args = <<phIn[1], Len(phIn), phIn>>
                 /\ phOut.cls = "" /\ phOut.readCount = 0
         /\ phIn[1] \in DOMAIN Registered
              => /\ phOut.cls = Registered[phIn[1]]
                 /\ phOut.exc \in {"None", "EOFError", "NotImplementedError: no longer used",
                                    "NotImplementedError: Subcommand not implemented"}
                 /\ phOut.args = <<>>

\* the decoder of the general-info message has raised for a subcommand it
\* does not know, and the exception is the decoder's
C15_Witness ==
    /\ phIn = <<GENERAL_INFO, 0, 0, 1, 0>>
    /\ phOut.cls = "GeneralInfoPacket"
    /\ phOut.exc = "NotImplementedError: Subcommand not implemented"

\* C16: a step of connect, selectServer or play that receives a login-denied
\* message ends with LoginDeniedError.
C16_LoginDeniedRaises ==
    [][ (/\ tick' # tick
         /\ ~(started /\ ~alive)
         /\ \E i \in 1..Len(last'.io) : last'.io[i] = <<"recv", "LoginDenied">>)
          => last'.exc = "LoginDeniedError" ]_vars

\* what a step of play did after its receive and the ping of the loop
AfterPing(io) ==
    LET n == IF Len(io) >= 2 /\ io[2] = <<"send", "Ping">> THEN 2 ELSE 1
    IN SubSeq(io, n + 1, Len(io))

\* C17: the login-complete message sets loginComplete, then sends the skill
\* request, the version, the client type, the language and the single click
\* on the player in this order, and then starts the Brain; loginComplete never
\* returns to false; a second login-complete message raises AssertionError,
\* sends nothing and does not start the Brain again.
C17_LoginCompleteOnce ==
    [][ /\ lc => lc'
        /\ (/\ tick' # tick /\ pc = "play" /\ ~(started /\ ~alive)
            /\ last'.rx = <<[kind |-> "LoginComplete"]>>)
             => IF lc
                THEN /\ last'.exc = "AssertionError"
                     /\ AfterPing(last'.io) = <<>>
                     /\ started' = started /\ alive' = alive
                     /\ pc' = "idle"
                ELSE player # NoOid
                       => /\ last'.exc = "None"
                          /\ lc'
                          /\ last'.io = << <<"recv", "LoginComplete">>,
                                           <<"send", "RequestStatus">>,
                                           <<"send", "ClientVersion">>,
                                           <<"send", "ClientType">>,
                                           <<"send", "Language">>,
                                           <<"send", "SingleClick">>,
                                           <<"start", "Brain">> >>
                          /\ ~started /\ started' /\ alive' ]_vars

\* a second login-complete message has ended the loop with AssertionError
C17_Witness ==
    /\ lc /\ started
    /\ last.op = "play" /\ last.exc = "AssertionError"
    /\ last.rx = <<[kind |-> "LoginComplete"]>>

\* the messages the claim names: mobile draw, mobile update, item info,
\* delete-object, container-content, vitals
Gated ==
    {"DrawObject", "UpdatePlayer", "ObjectInfo", "DeleteObject",
     "AddItemToContainer", "AddItemsToContainer"} \cup VitalKinds

\* the object map holds nothing, or the player under its serial
AtMostThePlayer(pl, objs, h) ==
    \/ objs = <<>>
    \/ pl # NoOid /\ objs = (h[pl].serial :> pl)

\* C18: while loginComplete is false a mobile draw, mobile update, item info,
\* delete-object, container-content or vitals message ends with
\* AssertionError and leaves player, object map and objects as they were;
\* while loginComplete is false the object map holds at most the player.
C18_WorldIsGatedByLoginComplete ==
    [][ /\ (/\ tick' # tick /\ pc = "play" /\ ~lc
            /\ last'.rx # <<>> /\ last'.rx[1].kind \in Gated)
             => /\ last'.exc = "AssertionError"
                /\ UNCHANGED <<lc, player, objects, heap, events>>
        /\ ~lc => AtMostThePlayer(player, objects, heap)
        /\ ~lc' => AtMostThePlayer(player', objects', heap') ]_vars

\* a mobile draw has arrived before the login was complete, the player known
C18_Witness ==
    /\ ~lc /\ player # NoOid /\ DOMAIN objects = {heap[player].serial}
    /\ last.exc = "AssertionError"
    /\ last.rx # <<>> /\ last.rx[1].kind = "DrawObject"

\* the single clicks a step has sent
Clicks(io) == Cardinality(Places(io, "send") \cap {i \in 1..Len(io) : io[i][2] = "SingleClick"})

\* C19: a mobile draw, mobile update or item info processed after login
\* completion updates the object stored under the serial in place when the
\* serial is known and inserts a new object under it otherwise; one single
\* click is sent for a newly inserted mobile, none for an item or a refresh.
C19_UpdateInPlaceOrInsert ==
    [][ (/\ tick' # tick /\ pc = "play" /\ lc /\ ~(started /\ ~alive)
         /\ last'.rx # <<>>
         /\ last'.rx[1].kind \in {"DrawObject", "UpdatePlayer", "ObjectInfo"})
          => LET msg == last'.rx[1]
                 known == msg.serial \in DOMAIN objects
             IN /\ last'.exc = "None"
                /\ msg.serial \in DOMAIN objects'
                /\ heap'[objects'[msg.serial]].serial = msg.serial
                /\ heap'[objects'[msg.serial]].graphic = msg.graphic
                /\ known => objects'[msg.serial] = objects[msg.serial]
                /\ ~known => objects'[msg.serial] \notin DOMAIN heap
                /\ Clicks(last'.io) = IF ~known /\ msg.kind # "ObjectInfo" THEN 1 ELSE 0
    ]_vars

\* C20: a container-content message (single or bulk) processed after login
\* completion ends without exception; an entry addressed to a Container is
\* appended to its content and its item is in the object map; an entry
\* addressed to anything else (an Item, a Mobile, an unknown serial) changes
\* nothing, and the loop goes on.
C20_ContainerContentIsRouted ==
    [][ (/\ tick' # tick /\ pc = "play" /\ lc /\ ~(started /\ ~alive)
         /\ last'.rx # <<>>
         /\ last'.rx[1].kind \in {"AddItemToContainer", "AddItemsToContainer"})
          => LET its == last'.rx[1].items
                 routed == {i \in 1..Len(its) :
                              /\ its[i].container \in DOMAIN objects
                              /\ IsContainer(heap[objects[its[i].container]])}
             IN /\ last'.exc = "None"
                /\ pc' = "play"
                /\ routed = {} => UNCHANGED <<player, objects, heap>>
                /\ \A i \in routed :
                     /\ its[i].serial \in DOMAIN objects'
                     /\ \E k \in 1..Len(heap'[objects[its[i].container]].content) :
                          heap'[objects[its[i].container]].content[k] = objects'[its[i].serial]
    ]_vars

\* C21: a draw-container message for a plain Item turns that object into a
\* Container in place (same object under the same serial, content empty); for
\* an object that is a Container it leaves the content as it was; no step
\* turns a Container into anything else.
C21_PromotionIsOneWay ==
    [][ /\ \A o \in DOMAIN heap :
             IsContainer(heap[o]) => o \in DOMAIN heap' /\ IsContainer(heap'[o])
        /\ (/\ tick' # tick /\ pc = "play" /\ ~(started /\ ~alive)
            /\ last'.rx # <<>> /\ last'.rx[1].kind = "DrawContainer"
            /\ last'.rx[1].serial \in DOMAIN objects
            /\ IsItem(heap[objects[last'.rx[1].serial]]))
             => LET s == last'.rx[1].serial
                    o == objects[s]
                IN /\ last'.exc = "None" /\ pc' = "play"
                   /\ objects' = objects
                   /\ IsContainer(heap'[o])
                   /\ heap'[o] = [heap[o] EXCEPT !.cls = "Container"]
                   /\ \A x \in DOMAIN heap \ {o} : heap'[x] = heap[x] ]_vars

\* a second draw-container has arrived for a Container that holds an item
C21_Witness ==
    /\ last.exc = "None" /\ last.rx # <<>> /\ last.rx[1].kind = "DrawContainer"
    /\ nMsgs >= 2
    /\ last.rx[1].serial \in DOMAIN objects
    /\ IsContainer(heap[objects[last.rx[1].serial]])
    /\ heap[objects[last.rx[1].serial]].content # <<>>

\* the objects an object of the map refers to: its equip and its content
Referenced(o) ==
    {heap[o].equip[i] : i \in 1..Len(heap[o].equip)}
      \cup {heap[o].content[i] : i \in 1..Len(heap[o].content)}

\* C22: every object referenced from the equip of a Mobile or the content of
\* a Container of the object map is the object the map stores under that
\* object's serial.
C22_ReferencesAreInTheObjectMap ==
    \A s \in DOMAIN objects : \A it \in Referenced(objects[s]) :
        /\ heap[it].serial \in DOMAIN objects
        /\ objects[heap[it].serial] = it

\* C23: a targeting-cursor request that arrives while the client holds a
\* Target ends with AssertionError and the Target held stays as it is; one
\* that arrives while it holds none is stored.
C23_OneTargetOutstanding ==
    [][ (/\ tick' # tick /\ pc = "play" /\ ~(started /\ ~alive)
         /\ last'.op = "play" /\ last'.rx # <<>> /\ last'.rx[1].kind = "TargetCursor")
          => IF target # NoTarget
             THEN /\ last'.exc = "AssertionError"
                  /\ target' = target
                  /\ pc' = "idle"
             ELSE /\ last'.exc = "None"
                  /\ target' = [what |-> last'.rx[1].what, id |-> last'.rx[1].id,
                                type |-> last'.rx[1].type] ]_vars

\* a second request, for another cursor, has arrived and was refused
C23_Witness ==
    /\ target # NoTarget
    /\ last.op = "play" /\ last.exc = "AssertionError"
    /\ last.rx # <<>> /\ last.rx[1].kind = "TargetCursor"
    /\ last.rx[1].id # target.id

\* C24: answering the outstanding object-kind Target through Target.target
\* sends one target-cursor reply with the kind, id and disposition of the
\* cursor and the serial of the object, and leaves the client without Target.
C24_ReplyClearsTheTarget ==
    [][ (/\ tick' # tick /\ last'.op = "target" /\ target.what = OBJECT)
          => /\ last'.exc = "None"
             /\ last'.io = << <<"send", "TargetCursor">> >>
             /\ Len(last'.ret) >= 11
             /\ SubSeq(last'.ret, 1, 7)
                  = <<TARGET_CURSOR, target.what>> \o PackI(target.id) \o <<target.type>>
             /\ \E s \in DOMAIN objects : SubSeq(last'.ret, 8, 11) = PackI(s)
             /\ target' = NoTarget ]_vars

\* bit k of a buffer, counted from 1, the most significant bit of a byte first
Bit(b, k) == (b[((k - 1) \div 8) + 1] \div (2 ^ (7 - ((k - 1) % 8)))) % 2

\* The codewords of a buffer read as one string of bits: from bit k and the
\* node of the tree reached, the bytes of the codewords up to the first halt
\* codeword and the bit that ends it, or no halt when the bits run out.
RECURSIVE Codewords(_, _, _, _)
Codewords(b, k, node, out) ==
    IF k > 8 * Len(b) THEN [halt |-> FALSE, out |-> out, at |-> 0, node |-> node]
    ELSE LET v == DECOMPRESSION_TREE[node + 1][Bit(b, k) + 1]
         IN IF v = -256 THEN [halt |-> TRUE, out |-> out, at |-> k, node |-> node]
            ELSE IF v < 1 THEN Codewords(b, k + 1, 0, Append(out, 0 - v))
            ELSE Codewords(b, k + 1, v, out)

\* C25: for a buffer that holds a halt codeword, decompress returns the bytes
\* of the codewords before the first halt codeword and one plus the index of
\* the byte that holds its last bit; the bytes from there on do not matter.
C25_DecompressUpToHalt ==
    res # NoResult
      => LET c == Codewords(arg, 1, 0, <<>>)
         IN c.halt
              => /\ res.full
                 /\ res.raw = c.out
                 /\ res.size = ((c.at - 1) \div 8) + 1
                 /\ Decompress(SubSeq(arg, 1, res.size)) = res

\* the halt codeword ends in the second byte, one byte follows it
C25_Witness ==
    /\ arg = <<3, 64, 255>>
    /\ res # NoResult /\ res.full
    /\ res.raw = <<0, 0, 0>> /\ res.size = 2

\* C26: for a buffer without halt codeword - ended inside a codeword, ended
\* between two codewords, or empty - decompress raises NoFullPacketError and
\* returns nothing.
C26_TruncatedIsIncomplete ==
    res # NoResult
      => LET c == Codewords(arg, 1, 0, <<>>)
         IN ~c.halt => res = [full |-> FALSE, raw |-> <<>>, size |-> 0]

\* the buffer has ended inside a codeword, after three whole codewords
C26_Witness ==
    /\ arg = <<0, 3>>
    /\ res # NoResult /\ ~res.full
    /\ Codewords(arg, 1, 0, <<>>).node # 0

\* C27: an item-info message decodes with facing, color and flag populated
\* exactly when the message carries them (None otherwise), with x the low 15
\* and y the low 14 bits of the wire values, and with as many bytes read as
\* the message declares.
C27_ObjectInfoOptionalFields ==
    res # NoResult /\ arg[1] = OBJECT_INFO
      => \A m \in ObjectInfoMsgs :
            arg = ObjectInfoBytes(m)
              => /\ res.exc = "None"
                 /\ res.facing = m.facing
                 /\ res.color = m.color
                 /\ res.flag = m.flag
                 /\ res.x = m.x /\ res.y = m.y /\ res.z = m.z
                 /\ res.readCount = res.length
                 /\ res.length = Len(arg)

\* a message with a color and neither facing nor flag, both coordinates with
\* all their bits set
C27_Witness ==
    /\ res # NoResult
    /\ res.cls = "ObjectInfoPacket" /\ res.exc = "None"
    /\ res.facing = Absent /\ res.color = Some(513) /\ res.flag = Absent
    /\ res.x = 32767 /\ res.y = 16383

FlagAt == 3 + 4 + NameLen + 2 + 2 + 1 + 1

LenPlace(po) == IF po.lenIdx = None THEN {} ELSE {po.lenIdx + 1, po.lenIdx + 2}

\* C30: on a packet whose length was reserved with ulen, getBytes returns the
\* bytes written, as many as were written, with their number as a big-endian
\* short in the reserved place and every other byte as written; getBytes
\* called again returns the same bytes; a second ulen fails the assertion and
\* changes nothing.
C30_LengthIsPatched ==
    [][ /\ \A i \in 1..Len(arg.buf) : i \notin LenPlace(arg) => arg'.buf[i] = arg.buf[i]
        /\ res'.op = "getBytes"
             => /\ res'.exc = "None"
                /\ Len(res'.bytes) = Len(arg.buf)
                /\ \A i \in 1..Len(arg.buf) :
                      i \notin LenPlace(arg) => res'.bytes[i] = arg.buf[i]
                /\ arg.lenIdx # None
                     => res'.bytes[arg.lenIdx + 1] * 256 + res'.bytes[arg.lenIdx + 2]
                          = Len(res'.bytes)
                /\ res.op = "getBytes" => res'.bytes = res.bytes
        /\ (res'.op = "ulen" /\ arg.lenIdx # None)
             => res'.exc = "AssertionError" /\ arg' = arg
      ]_vars

\* bytes were written after ulen and getBytes returned them with their number
C30_Witness ==
    /\ res.op = "getBytes" /\ res.exc = "None"
    /\ arg.lenIdx = 1
    /\ res.bytes = <<GENERAL_INFO, 0, 5, 2, 3>>

\* C31: uchar, ushort and uint raise ValueError for a value outside 0..255,
\* 0..65535 and 0..4294967295 and leave the buffer as it was; for a value in
\* range they append 1, 2 and 4 bytes, the value in big-endian order.
C31_WritersCheckTheRange ==
    [][ LET hi == res'.val[1]
            lo == res'.val[2]
            ok == CASE res'.op = "uchar" -> hi = 0 /\ lo <= 255
                    [] res'.op = "ushort" -> hi = 0
                    [] res'.op = "uint" -> hi >= 0 /\ hi <= 65535
                    [] OTHER -> TRUE
            bytes == CASE res'.op = "uchar" -> <<lo>>
                       [] res'.op = "ushort" -> <<lo \div 256, lo % 256>>
                       [] res'.op = "uint" ->
                            <<hi \div 256, hi % 256, lo \div 256, lo % 256>>
                       [] OTHER -> <<>>
        IN res'.op \in {"uchar", "ushort", "uint"}
             => IF ok THEN res'.exc = "None" /\ arg'.buf = arg.buf \o bytes
                ELSE res'.exc = "ValueError" /\ arg' = arg
      ]_vars

\* 256 was refused as a byte after 0xffffffff was written
C31_Witness ==
    /\ res.op = "uchar" /\ res.val = <<0, 256>> /\ res.exc = "ValueError"
    /\ arg.buf = <<GENERAL_INFO, 255, 255, 255, 255>>

\* C32: pb(num) with num above the bytes left raises EOFError and leaves
\* readCount and the buffer as they were; otherwise it returns the next num
\* bytes and moves on by num; after every read readCount plus the bytes left
\* is the length of the buffer the Packet was made on.
C32_ReadsKeepTheCount ==
    [][ res'.op = "pb"
          => /\ IF res'.num > Len(arg.buf)
                THEN /\ res'.exc = "EOFError"
                     /\ arg'.readCount = arg.readCount
                     /\ arg'.buf = arg.buf
                ELSE /\ res'.exc = "None"
                     /\ res'.ret = SubSeq(phIn, arg.readCount + 1, arg.readCount + res'.num)
                     /\ arg'.readCount = arg.readCount + res'.num
             /\ arg'.readCount + Len(arg'.buf) = Len(phIn)
             /\ arg'.buf = SubSeq(phIn, arg'.readCount + 1, Len(phIn))
      ]_vars

\* a read of two bytes raised with one byte left, after three were read
C32_Witness ==
    /\ res.op = "pb" /\ res.num = 2 /\ res.exc = "EOFError"
    /\ Len(phIn) = 4 /\ arg.readCount = 3 /\ Len(arg.buf) = 1

\* C33: every message of fixed layout the client sends is built without an
\* exception, and Ph.process decodes its bytes, all of them, into a packet of
\* the same command id (for the keep-alive: with the sequence number sent).
C33_DecodeOfEncode ==
    res # NoResult
      => /\ res.exc = "None"
         /\ res.pkt.exc = "None"
         /\ res.pkt.readCount = Len(res.sent)
         /\ (arg.type = "Ping" => res.pkt.cls = "PingPacket" /\ res.pkt.ret = <<0>>)

\* the same for the keep-alive alone, the one message sent that has a decoder
C33_PingDecodes ==
    (res # NoResult /\ arg.type = "Ping")
      => /\ res.exc = "None"
         /\ res.pkt.exc = "None"
         /\ res.pkt.readCount = Len(res.sent)
         /\ res.pkt.cls = "PingPacket" /\ res.pkt.ret = <<0>>

\* C34: among the classes of the packets module the classes without cmd come
\* before every class with one, and the classes with a cmd come in strictly
\* increasing order of cmd, so that no two of them have the same cmd; the
\* test finds no base class after a concrete one and no cmd out of order.
C34_PacketsInCmdOrder ==
    arg.module = "packets"
      => /\ \A j \in 1..arg.n : \A i \in 1..(j - 1) :
               LET a == PacketsClasses[i]
                   b == PacketsClasses[j]
               IN /\ ~IsConcrete(b) => ~IsConcrete(a)
                  /\ (IsConcrete(a) /\ IsConcrete(b)) => a.cmd < b.cmd
         /\ res # NoResult => res.exc \notin {"AssertionError: base", "AssertionError: order"}

\* every class statement of the packets module has run
C34_Witness ==
    /\ arg.module = "packets"
    /\ arg.n = Len(PacketsClasses)
    /\ arg.n = 44
    /\ PacketsClasses[arg.n].cmd = 221

\* C35: the first bootstrap message creates the player with the message's
\* serial, body, position and facing, sets the realm to the wire width plus 8
\* and the wire height and registers the player under its serial; every later
\* one, before or after login completion, ends in an assertion error with the
\* player, the realm and the object map as they were
C35_BootstrapOnce ==
    [][res'.op = "CharLocaleBody" =>
        LET pkt == res'.pkt
        IN IF arg.player = Absent
           THEN /\ res'.exc = "None"
                /\ arg'.player = Some([serial |-> Some(pkt.serial),
                                       graphic |-> Some(pkt.bodyType),
                                       x |-> Some(pkt.x), y |-> Some(pkt.y),
                                       z |-> Some(pkt.z),
                                       facing |-> Some(pkt.facing)])
                /\ arg'.width = pkt.widthM8 + 8
                /\ arg'.height = pkt.height
                /\ DOMAIN arg'.objects = {pkt.serial}
                /\ arg'.objects[pkt.serial] = "player"
                /\ arg'.lc = arg.lc
           ELSE /\ res'.exc = "AssertionError"
                /\ arg' = arg]_vars

\* a bootstrap message refused after login completion, with a mobile in sight
C35_Witness ==
    /\ res.op = "CharLocaleBody"
    /\ res.exc = "AssertionError"
    /\ arg.lc
    /\ arg.width = 6144
    /\ \E s \in DOMAIN arg.objects : arg.objects[s] = "mobile"

\* C36: an iteration of play that starts with the Brain started and dead
\* leaves the loop without receiving or consuming a message
C36_LivenessBeforeReceive ==
    [][(tick' # tick /\ pc = "play" /\ started /\ ~alive)
        => (pc' = "idle" /\ last'.io = <<>> /\ last'.rx = <<>>)]_vars

\* C37: an iteration of Brain.run calls loop() once and then drains the
\* queue; a true result of loop() ends the run before any drain; after the
\* drain the timeout wait is entered only when the drain took no event, and
\* when it took at least one the next iteration follows without a wait
C37_WaitOnlyAfterEmptyDrain ==
    [][/\ (arg.pc = "loop" /\ arg'.pc # "loop")
            => IF res'.ret THEN arg'.pc = "done" /\ events' = events
                           ELSE arg'.pc = "drain"
       /\ (arg.pc = "test" /\ arg'.pc = "wait") => arg.drained = 0
       /\ (arg.pc = "test" /\ arg'.pc # "test" /\ arg.drained > 0)
            => arg'.pc = "top"]_vars

\* C38: while play runs, every step that writes to the socket or changes the
\* session or the world is an iteration of the play loop, none a call made on
\* the Brain thread
C38_OnlyPlayWrites ==
    [][(\/ Places(last'.io, "send") # {}
        \/ <<status, lc, net, features>>' # <<status, lc, net, features>>
        \/ worldVars' # worldVars)
        => last'.op = "play"]_vars

\* C39: an iteration of the play loop sends a ping only with login complete
\* and more than a full interval after play started or the previous ping was
\* sent, and never more than one; before login completion it sends none, and
\* after a ping the next is due a full interval later
C39_PingAfterInterval ==
    [][(arg.pc = "play" /\ (res' # res \/ arg'.pc # "play")) =>
        LET pings == Places(res'.io, "send")
        IN /\ Cardinality(pings) <= 1
           /\ ~arg.lc => pings = {}
           /\ pings # {} =>
                /\ arg.lc
                /\ arg.now - res.mark > PING_INTERVAL
                /\ arg'.ping - res'.mark = PING_INTERVAL
                /\ arg'.ping - arg.now >= PING_INTERVAL]_vars

\* the second ping of a session, sent after login completion
C39_Witness ==
    /\ res.op = "iter"
    /\ Places(res.io, "send") # {}
    /\ res.mark > 2 * PING_INTERVAL
    /\ arg.lc

\* C40: once the bootstrap has created the player, the object map holds the
\* player under the player's own serial in every state, whatever messages
\* follow, a delete-object for that serial included
C40_PlayerStaysRegistered ==
    player # NoOid =>
        /\ heap[player].serial \in DOMAIN objects
        /\ objects[heap[player].serial] = player

\* the first states of SpecWorld are states of the session
WithContainerReached == WithContainer /\ nMsgs > 0

BeforeLoginReached == BeforeLogin

\* the first states of SpecNet are states of the session
AuthReceivingReached == Receiving(FALSE)
GameReceivingReached == Receiving(TRUE)

====
